---- MODULE Spec2Model ----
(***************************************************************************)
(* Exact rational arithmetic (lib/fractions.ts) and the fraction-based     *)
(* elimination engines, solution extractors and system classifier          *)
(* (lib/fractionElimination.ts) of Linear-Algebra-Matrix.                  *)
(*                                                                         *)
(* JavaScript numbers are IEEE doubles; every value of this model stays    *)
(* far below 2^53, where double arithmetic on integers is exact, so the    *)
(* numbers are modelled as integers.                                       *)
(***************************************************************************)
EXTENDS Integers, Sequences, FiniteSets, TLC

VARIABLES
    \* ---- Fraction calculator (one call of a Fraction operation) ----
    f1,              \* first operand: a Fraction or a plain number
    f2,              \* second operand: a Fraction or a plain number
    fop,             \* the operations applied so far ("init" = none yet)
    fresult,         \* value returned by the last operation, or a thrown error
    \* ---- elimination engines ----
    arrays,          \* heap of outer arrays: each a sequence of row references
    rowsHeap,        \* heap of row arrays: each a sequence of cells
    augmentedMatrix, \* the caller's matrix (reference into arrays)
    input0,          \* value of the caller's matrix when the call was made
    engine,          \* which function is running
    pc,              \* position in the running function
    m,               \* the working matrix (reference into arrays), 0 before the call
    steps,           \* the trace: sequence of [matrix, operation, description]
    col,             \* loop variable of the column loop (0-based as in the code)
    currentRow,      \* gaussJordanWithFractions' row cursor (0-based)
    result,          \* returned matrix (reference into arrays), 0 before return
    solution,        \* value returned by the extractor, <<>> before
    classification,  \* value returned by the classifier, "" before
    first,           \* what the caller kept of an earlier call: { result, steps }
    \* ---- history ----
    pivots,          \* the columns gaussJordanWithFractions found a pivot in
    \* ---- numeric solvers (one call of a solver of lib/matrixUtils.ts) ----
    numeric,         \* [solver, A, b, outcome]
    \* ---- calculator page (the state of the Home component) ----
    home,            \* [method, size, matrix, bVector, result, error, steps, showSteps]
    last             \* history: was the last handler handleSolve, the error shown before it

fvars == <<f1, f2, fop, fresult>>
hvars == <<first, pivots>>
pvars == <<numeric, home, last>>
evars == <<arrays, rowsHeap, augmentedMatrix, input0, engine, pc, m, steps,
           col, currentRow, result, solution, classification, first, pivots>>
vars == <<f1, f2, fop, fresult, arrays, rowsHeap, augmentedMatrix, input0,
          engine, pc, m, steps, col, currentRow, result, solution,
          classification, first, pivots,
         numeric, home, last>>

(***************************************************************************)
(* Bounds of the model.                                                    *)
(***************************************************************************)
\* numerators, denominators and plain numbers of the Fraction calculator
MaxNum == 4
\* entries of the small input matrices range over -MaxVal..MaxVal
MaxVal == 1

(***************************************************************************)
(* Values.  A plain JavaScript number n is [number |-> n]; a Fraction is   *)
(* [numerator |-> n, denominator |-> d]; a thrown Error is                 *)
(* [error |-> message].                                                    *)
(***************************************************************************)
Num(n) == [number |-> n]
IsNumber(x) == DOMAIN x = {"number"}
Thrown(msg) == [error |-> msg]
Threw(x) == DOMAIN x = {"error"}
IsFraction(x) == DOMAIN x = {"numerator", "denominator"}

Abs(x) == IF x < 0 THEN -x ELSE x
Min(a, b) == IF a < b THEN a ELSE b

\* JavaScript's % : the remainder takes the sign of the dividend.
JSRem(a, b) == IF a >= 0 THEN a % Abs(b) ELSE -((-a) % Abs(b))

\* Fraction.gcd (Euclidean algorithm)
RECURSIVE gcd(_, _)
gcd(a, b) == IF b = 0 THEN a ELSE gcd(b, JSRem(a, b))

\* Fraction.lcm
lcm(a, b) == Abs(a * b) \div gcd(a, b)

\* Mutant of the constructor: the sign of the denominator is not normalised
\* and the components are not reduced.
NewFractionUnreduced(numerator, denominator) ==
    IF denominator = 0 THEN Thrown("Denominator cannot be zero")
    ELSE [numerator |-> numerator, denominator |-> denominator]

\* Mutant of the constructor: the zero-denominator check is missing.
NewFractionUnchecked(numerator, denominator) ==
    LET n1 == IF denominator < 0 THEN -numerator ELSE numerator
        d1 == IF denominator < 0 THEN -denominator ELSE denominator
    IN IF n1 = 0 THEN [numerator |-> 0, denominator |-> 1]
       ELSE LET g == gcd(Abs(n1), Abs(d1))
            IN [numerator |-> n1 \div g, denominator |-> d1 \div g]

\* new Fraction(numerator, denominator)
NewFraction(numerator, denominator) ==
    IF denominator = 0 THEN Thrown("Denominator cannot be zero")
    ELSE LET n1 == IF denominator < 0 THEN -numerator ELSE numerator
             d1 == IF denominator < 0 THEN -denominator ELSE denominator
         IN IF n1 = 0 THEN [numerator |-> 0, denominator |-> 1]
            ELSE LET g == gcd(Abs(n1), Abs(d1))
                 IN [numerator |-> n1 \div g, denominator |-> d1 \div g]

\* typeof f === "number" ? new Fraction(f) : f
Coerce(f) == IF IsNumber(f) THEN NewFraction(f.number, 1) ELSE f

\* Fraction.add
Add(a1, a2) ==
    LET a == Coerce(a1)
        b == Coerce(a2)
        l == lcm(a.denominator, b.denominator)
        num == a.numerator * (l \div a.denominator)
               + b.numerator * (l \div b.denominator)
    IN NewFraction(num, l)

\* Mutant of Fraction.subtract: the second numerator is not brought to the
\* common denominator.
SubtractUnscaled(a1, a2) ==
    LET a == Coerce(a1)
        b == Coerce(a2)
        l == lcm(a.denominator, b.denominator)
        num == a.numerator * (l \div a.denominator) - b.numerator
    IN NewFraction(num, l)

\* Fraction.subtract
Subtract(a1, a2) ==
    LET a == Coerce(a1)
        b == Coerce(a2)
        l == lcm(a.denominator, b.denominator)
        num == a.numerator * (l \div a.denominator)
               - b.numerator * (l \div b.denominator)
    IN NewFraction(num, l)

\* Fraction.multiply
Multiply(a1, a2) ==
    LET a == Coerce(a1)
        b == Coerce(a2)
    IN NewFraction(a.numerator * b.numerator, a.denominator * b.denominator)

\* Fraction.divide
Divide(a1, a2) ==
    LET a == Coerce(a1)
        b == Coerce(a2)
    IN IF b.numerator = 0 THEN Thrown("Division by zero")
       ELSE NewFraction(a.numerator * b.denominator,
                        a.denominator * b.numerator)

\* Fraction.prototype.equals
Equals(this, other) ==
    LET b == Coerce(other)
    IN this.numerator = b.numerator /\ this.denominator = b.denominator

\* Fraction.prototype.abs
FracAbs(this) == NewFraction(Abs(this.numerator), this.denominator)

\* Fraction.prototype.negate
Negate(this) == NewFraction(-this.numerator, this.denominator)

\* Fraction.prototype.isZero
isZero(this) == this.numerator = 0

\* 1e-10, the default epsilon of isNearZero, is 1 / (EpsilonRoot * EpsilonRoot)
EpsilonRoot == 100000

CeilDiv(a, b) == (a + b - 1) \div b

\* Fraction.prototype.isNearZero with the default epsilon:
\* |numerator / denominator| < 1e-10, i.e. |numerator| * 10^10 < denominator,
\* computed without forming 10^10.
isNearZero(this) ==
    Abs(this.numerator) < CeilDiv(CeilDiv(this.denominator, EpsilonRoot), EpsilonRoot)

\* Mutant of the pivot comparison: >= instead of >.
AbsDecimalGreaterOrEqual(a, b) ==
    Abs(a.numerator) * Abs(b.denominator) >= Abs(b.numerator) * Abs(a.denominator)

\* Math.abs(a.toDecimal()) > Math.abs(b.toDecimal()): the quotients are
\* compared; within the model's bounds distinct quotients are distinct doubles.
AbsDecimalGreater(a, b) ==
    Abs(a.numerator) * Abs(b.denominator) > Abs(b.numerator) * Abs(a.denominator)

\* Fraction.prototype.toString
FractionToString(this) ==
    IF this.denominator = 1 THEN ToString(this.numerator)
    ELSE ToString(this.numerator) \o "/" \o ToString(this.denominator)

\* Mutant of formatFraction: numerator and denominator are always printed.
formatFractionLong(frac) ==
    ToString(Coerce(frac).numerator) \o "/" \o ToString(Coerce(frac).denominator)

\* formatFraction
formatFraction(frac) == FractionToString(Coerce(frac))

(***************************************************************************)
(* The Fraction calculator: one operation applied to drawn operands, and   *)
(* the inverse operation applied to its result.                            *)
(***************************************************************************)
Numbers == {Num(n) : n \in -MaxNum..MaxNum}
Fractions == {NewFraction(n, d) : n \in -MaxNum..MaxNum, d \in 1..MaxNum}
Operands == Numbers \cup Fractions

\* no earlier call
NoRun == [engine |-> "none", result |-> 0, steps |-> <<>>]

\* null, and a value that is not null
Null == [null |-> TRUE]
IsNull(v) == DOMAIN v = {"null"}

\* createMatrix(size), and Array(size).fill(0)
createMatrix(size) == [i \in 1..size |-> [j \in 1..size |-> 0]]
ZeroVector(size) == [i \in 1..size |-> 0]

\* the useState initial values of Home
HomeInitial ==
    [method |-> "inverse", size |-> 3, matrix |-> createMatrix(3),
     bVector |-> <<0, 0, 0>>, result |-> Null, error |-> Null, steps |-> <<>>,
     showSteps |-> FALSE]

\* no solver of lib/matrixUtils.ts has been called, the page is as first rendered
PageIdle ==
    /\ numeric = [solver |-> "none"]
    /\ home = HomeInitial
    /\ last = [solve |-> FALSE, error |-> Null]

EngineIdle ==
    /\ PageIdle
    /\ first = NoRun
    /\ pivots = <<>>
    /\ arrays = <<>>
    /\ rowsHeap = <<>>
    /\ augmentedMatrix = 0
    /\ input0 = <<>>
    /\ engine = "none"
    /\ pc = "idle"
    /\ m = 0
    /\ steps = <<>>
    /\ col = 0
    /\ currentRow = 0
    /\ result = 0
    /\ solution = <<>>
    /\ classification = ""

FInit ==
    /\ f1 \in Operands
    /\ f2 \in Operands
    /\ fop = "init"
    /\ fresult = Num(0)
    /\ EngineIdle

FApply(name, value) ==
    /\ fop = "init"
    /\ fop' = name
    /\ fresult' = value
    /\ UNCHANGED <<f1, f2>>
    /\ UNCHANGED evars
    /\ UNCHANGED pvars

\* new Fraction(n, d) on two plain numbers
FNew == IsNumber(f1) /\ IsNumber(f2) /\ FApply("new", NewFraction(f1.number, f2.number))
FAdd == FApply("add", Add(f1, f2))
FSubtract == FApply("subtract", Subtract(f1, f2))
FMultiply == FApply("multiply", Multiply(f1, f2))
FDivide == FApply("divide", Divide(f1, f2))
FAbs == IsFraction(f1) /\ FApply("abs", FracAbs(f1))
FNegate == IsFraction(f1) /\ FApply("negate", Negate(f1))

\* Fraction.subtract(Fraction.add(a, b), b)
FSubtractBack ==
    /\ fop = "add"
    /\ fop' = "add;subtract"
    /\ fresult' = Subtract(fresult, f2)
    /\ UNCHANGED <<f1, f2>>
    /\ UNCHANGED evars
    /\ UNCHANGED pvars

\* Fraction.multiply(Fraction.divide(a, b), b)
FMultiplyBack ==
    /\ fop = "divide"
    /\ ~Threw(fresult)
    /\ fop' = "divide;multiply"
    /\ fresult' = Multiply(fresult, f2)
    /\ UNCHANGED <<f1, f2>>
    /\ UNCHANGED evars
    /\ UNCHANGED pvars

FNext ==
    \/ FNew
    \/ FAdd
    \/ FSubtract
    \/ FMultiply
    \/ FDivide
    \/ FAbs
    \/ FNegate
    \/ FSubtractBack
    \/ FMultiplyBack

SpecFraction == FInit /\ [][FNext]_vars

(***************************************************************************)
(* Matrices.  Arrays are objects: a matrix is a reference to an outer      *)
(* array whose elements are references to row arrays.  Fractions are       *)
(* immutable, so cells are held by value.                                  *)
(***************************************************************************)
\* the value of the matrix at reference ref: a sequence of rows of cells
MatrixOf(as, rh, ref) == [i \in 1..Len(as[ref]) |-> rh[as[ref][i]]]

\* m.length and m[0].length
RowCount(M) == Len(M)
ColCount(M) == Len(M[1])

\* numberMatrixToFractions, and the value of a (number | Fraction) matrix
numberMatrixToFractions(M) ==
    [i \in 1..Len(M) |-> [j \in 1..Len(M[i]) |-> Coerce(M[i][j])]]

\* Mutant of cloneFractionMatrix: a fresh outer array over the same row
\* arrays.
cloneOuterArrayOnly(as, rh, ref) ==
    [arrays |-> Append(as, as[ref]),
     rowsHeap |-> rh,
     ref |-> Len(as) + 1]

\* cloneFractionMatrix: fresh row arrays and a fresh outer array.
\* Returns the grown heaps and the reference of the copy.
cloneFractionMatrix(as, rh, ref) ==
    LET M == MatrixOf(as, rh, ref)
        base == Len(rh)
        copies == [i \in 1..Len(M) |->
                     [j \in 1..Len(M[i]) |->
                        NewFraction(M[i][j].numerator, M[i][j].denominator)]]
    IN [arrays |-> Append(as, [i \in 1..Len(M) |-> base + i]),
        rowsHeap |-> rh \o copies,
        ref |-> Len(as) + 1]

\* Mutant of the conversion: the caller's arrays are converted in place and
\* become the working matrix.
ConvertInputInPlace(as, rh, ref) ==
    [arrays |-> as,
     rowsHeap |-> [k \in 1..Len(rh) |->
                     IF \E i \in 1..Len(as[ref]) : as[ref][i] = k
                     THEN [j \in 1..Len(rh[k]) |-> Coerce(rh[k][j])]
                     ELSE rh[k]],
     ref |-> ref]

\* augmentedMatrix.map(row => row.map(val =>
\*     typeof val === "number" ? new Fraction(val) : val))
ConvertInput(as, rh, ref) ==
    LET M == MatrixOf(as, rh, ref)
        base == Len(rh)
        converted == [i \in 1..Len(M) |->
                        [j \in 1..Len(M[i]) |-> Coerce(M[i][j])]]
    IN [arrays |-> Append(as, [i \in 1..Len(M) |-> base + i]),
        rowsHeap |-> rh \o converted,
        ref |-> Len(as) + 1]

(***************************************************************************)
(* The engines work on a store st = [arrays, rowsHeap, steps, threw]: the  *)
(* two heaps, the trace, and whether an Error was thrown.                  *)
(***************************************************************************)
Working(st, mref) == MatrixOf(st.arrays, st.rowsHeap, mref)

\* steps.push({ matrix: cloneFractionMatrix(m), operation, description })
PushStep(st, mref, operation, description) ==
    LET c == cloneFractionMatrix(st.arrays, st.rowsHeap, mref)
    IN [st EXCEPT !.arrays = c.arrays,
                  !.rowsHeap = c.rowsHeap,
                  !.steps = Append(st.steps, [matrix |-> c.ref,
                                              operation |-> operation,
                                              description |-> description])]

\* Mutant of the pivot search: no search, the cursor row is the pivot row.
FindMaxRowNone(M, c, row, maxRow) == maxRow

\* the partial-pivoting loop: for (row = from; row < rows; row++)
\*   if (|m[row][col]| > |m[maxRow][col]|) maxRow = row     (0-based indices)
RECURSIVE FindMaxRow(_, _, _, _)
FindMaxRow(M, c, row, maxRow) ==
    IF row >= RowCount(M) THEN maxRow
    ELSE FindMaxRow(M, c, row + 1,
                    IF AbsDecimalGreater(M[row + 1][c + 1], M[maxRow + 1][c + 1])
                    THEN row ELSE maxRow)

\* [m[a], m[b]] = [m[b], m[a]]: the outer array's references are exchanged
SwapRows(st, mref, a, b) ==
    LET old == st.arrays[mref]
    IN [st EXCEPT !.arrays[mref] =
            [i \in 1..Len(old) |-> IF i = a + 1 THEN old[b + 1]
                                   ELSE IF i = b + 1 THEN old[a + 1]
                                   ELSE old[i]]]

\* The swap of the pivot row into place, with its trace step.
SwapStep(st, mref, cursor, maxRow) ==
    IF maxRow # cursor
    THEN PushStep(SwapRows(st, mref, cursor, maxRow), mref,
                  "R" \o ToString(cursor + 1) \o " <-> R" \o ToString(maxRow + 1),
                  "Swap row " \o ToString(cursor + 1) \o " and row "
                     \o ToString(maxRow + 1) \o " (partial pivoting)")
    ELSE st

\* Mutant of the row combination: the multiple of the pivot row is added.
CombineRowAdded(st, mref, row, p, factor, from) ==
    LET M == Working(st, mref)
        cols == ColCount(M)
    IN [st EXCEPT !.rowsHeap[st.arrays[mref][row + 1]] =
            [j \in 1..Len(M[row + 1]) |->
                IF j - 1 >= from /\ j - 1 < cols
                THEN Add(M[row + 1][j], Multiply(factor, M[p + 1][j]))
                ELSE M[row + 1][j]]]

\* Mutant of the row combination: the right-hand-side column is left out.
CombineRowCoefficients(st, mref, row, p, factor, from) ==
    LET M == Working(st, mref)
        cols == ColCount(M)
    IN [st EXCEPT !.rowsHeap[st.arrays[mref][row + 1]] =
            [j \in 1..Len(M[row + 1]) |->
                IF j - 1 >= from /\ j - 1 < cols - 1
                THEN Subtract(M[row + 1][j], Multiply(factor, M[p + 1][j]))
                ELSE M[row + 1][j]]]

\* for (j = from; j < cols; j++)
\*   m[row][j] = Fraction.subtract(m[row][j], Fraction.multiply(factor, m[p][j]))
\* The row arrays of m are distinct objects, so the pivot row is not written.
CombineRow(st, mref, row, p, factor, from) ==
    LET M == Working(st, mref)
        cols == ColCount(M)
    IN [st EXCEPT !.rowsHeap[st.arrays[mref][row + 1]] =
            [j \in 1..Len(M[row + 1]) |->
                IF j - 1 >= from /\ j - 1 < cols
                THEN Subtract(M[row + 1][j], Multiply(factor, M[p + 1][j]))
                ELSE M[row + 1][j]]]

\* gaussianEliminationWithFractions: the loop "Eliminate below pivot"
RECURSIVE EliminateBelow(_, _, _, _)
EliminateBelow(st, mref, c, row) ==
    LET M == Working(st, mref)
    IN IF row >= RowCount(M) THEN st
       ELSE IF isNearZero(M[row + 1][c + 1])
       THEN EliminateBelow(st, mref, c, row + 1)
       ELSE LET factor == Divide(M[row + 1][c + 1], M[c + 1][c + 1])
            IN IF Threw(factor) THEN [st EXCEPT !.threw = TRUE]
               ELSE LET factorStr == formatFraction(factor)
                        rowStr == "R" \o ToString(row + 1)
                        opStr == rowStr \o " - " \o factorStr \o "R" \o ToString(c + 1)
                    IN EliminateBelow(
                         PushStep(CombineRow(st, mref, row, c, factor, c), mref,
                                  opStr,
                                  "Eliminate below pivot: " \o rowStr \o " = " \o opStr),
                         mref, c, row + 1)

\* gaussianEliminationWithFractions: the body of one iteration of the column loop
GaussianBody(st, mref, c) ==
    LET maxRow == FindMaxRow(Working(st, mref), c, c + 1, c)
        swapped == SwapStep(st, mref, c, maxRow)
    IN IF isNearZero(Working(swapped, mref)[c + 1][c + 1]) THEN swapped
       ELSE EliminateBelow(swapped, mref, c, c + 1)

\* Mutant of the scaling: the pivot row is scaled and traced even when the
\* pivot is already 1.
ScaleStepAlways(st, mref, cur, c) ==
    LET M == Working(st, mref)
        pivotValue == M[cur + 1][c + 1]
        scaleFactor == Divide(Num(1), pivotValue)
    IN IF Threw(scaleFactor) THEN [st EXCEPT !.threw = TRUE]
       ELSE LET scaleStr == formatFraction(scaleFactor)
                scaled == [st EXCEPT !.rowsHeap[st.arrays[mref][cur + 1]] =
                             [j \in 1..Len(M[cur + 1]) |->
                                IF j - 1 < ColCount(M)
                                THEN Multiply(scaleFactor, M[cur + 1][j])
                                ELSE M[cur + 1][j]]]
            IN PushStep(scaled, mref,
                        scaleStr \o "R" \o ToString(cur + 1),
                        "Scale row " \o ToString(cur + 1) \o " by "
                           \o scaleStr \o " to make pivot = 1")

\* Mutant of the scaling: the pivot row is scaled but no step is appended.
ScaleStepUntraced(st, mref, cur, c) ==
    LET M == Working(st, mref)
        pivotValue == M[cur + 1][c + 1]
        scaleFactor == Divide(Num(1), pivotValue)
    IN IF Threw(scaleFactor) THEN [st EXCEPT !.threw = TRUE]
       ELSE [st EXCEPT !.rowsHeap[st.arrays[mref][cur + 1]] =
                [j \in 1..Len(M[cur + 1]) |->
                    IF j - 1 < ColCount(M)
                    THEN Multiply(scaleFactor, M[cur + 1][j])
                    ELSE M[cur + 1][j]]]

\* Mutant of the scaling: the pivot row is left as it is.
ScaleStepSkipped(st, mref, cur, c) == st

\* gaussJordanWithFractions: "Scale pivot row to make pivot = 1"
ScaleStep(st, mref, cur, c) ==
    LET M == Working(st, mref)
        pivotValue == M[cur + 1][c + 1]
    IN IF Equals(pivotValue, NewFraction(1, 1)) THEN st
       ELSE LET scaleFactor == Divide(Num(1), pivotValue)
            IN IF Threw(scaleFactor) THEN [st EXCEPT !.threw = TRUE]
               ELSE LET scaleStr == formatFraction(scaleFactor)
                        scaled == [st EXCEPT !.rowsHeap[st.arrays[mref][cur + 1]] =
                                     [j \in 1..Len(M[cur + 1]) |->
                                        IF j - 1 < ColCount(M)
                                        THEN Multiply(scaleFactor, M[cur + 1][j])
                                        ELSE M[cur + 1][j]]]
                    IN PushStep(scaled, mref,
                                scaleStr \o "R" \o ToString(cur + 1),
                                "Scale row " \o ToString(cur + 1) \o " by "
                                   \o scaleStr \o " to make pivot = 1")

\* Mutant of the elimination loop: only the rows below the pivot row are
\* combined.
RECURSIVE EliminateOthersBelow(_, _, _, _, _)
EliminateOthersBelow(st, mref, cur, c, row) ==
    LET M == Working(st, mref)
    IN IF row >= RowCount(M) THEN st
       ELSE IF row <= cur \/ isNearZero(M[row + 1][c + 1])
       THEN EliminateOthersBelow(st, mref, cur, c, row + 1)
       ELSE LET factor == M[row + 1][c + 1]
                factorStr == formatFraction(factor)
                rowStr == "R" \o ToString(row + 1)
                opStr == rowStr \o " - " \o factorStr \o "R" \o ToString(cur + 1)
            IN EliminateOthersBelow(
                 PushStep(CombineRow(st, mref, row, cur, factor, 0), mref,
                          opStr,
                          "Eliminate in column " \o ToString(c + 1) \o ": "
                             \o rowStr \o " = " \o opStr),
                 mref, cur, c, row + 1)

\* gaussJordanWithFractions: the loop "Eliminate above and below pivot"
RECURSIVE EliminateOthers(_, _, _, _, _)
EliminateOthers(st, mref, cur, c, row) ==
    LET M == Working(st, mref)
    IN IF row >= RowCount(M) THEN st
       ELSE IF row = cur \/ isNearZero(M[row + 1][c + 1])
       THEN EliminateOthers(st, mref, cur, c, row + 1)
       ELSE LET factor == M[row + 1][c + 1]
                factorStr == formatFraction(factor)
                rowStr == "R" \o ToString(row + 1)
                opStr == rowStr \o " - " \o factorStr \o "R" \o ToString(cur + 1)
            IN EliminateOthers(
                 PushStep(CombineRow(st, mref, row, cur, factor, 0), mref,
                          opStr,
                          "Eliminate in column " \o ToString(c + 1) \o ": "
                             \o rowStr \o " = " \o opStr),
                 mref, cur, c, row + 1)

\* gaussJordanWithFractions: the body of one iteration of the column loop
\* (after the currentRow >= rows test), up to the increment of currentRow
GaussJordanBody(st, mref, cur, c) ==
    LET maxRow == FindMaxRow(Working(st, mref), c, cur + 1, cur)
        swapped == SwapStep(st, mref, cur, maxRow)
    IN IF isNearZero(Working(swapped, mref)[cur + 1][c + 1]) THEN swapped
       ELSE LET scaled == ScaleStep(swapped, mref, cur, c)
            IN IF scaled.threw THEN scaled
               ELSE EliminateOthers(scaled, mref, cur, c, 0)

(***************************************************************************)
(* Solution extractors and classifier: they only read their argument, so   *)
(* they are operators on the matrix value.                                 *)
(***************************************************************************)
\* extractSolutionFromRREFFractions
extractSolutionFromRREFFractions(M) == [i \in 1..Len(M) |-> M[i][Len(M[i])]]

\* extractSolutionFromREFFractions: the inner loop
\*   for (j = i + 1; j < n; j++) sum = sum - refMatrix[i][j] * solution[j]
\* Reading refMatrix[i][j] past the end of the row yields undefined, and
\* Fraction.multiply(undefined, ...) throws a TypeError.
RECURSIVE BackSubstituteSum(_, _, _, _, _)
BackSubstituteSum(M, sol, i, j, sum) ==
    IF j >= Len(M) THEN sum
    ELSE IF j + 1 > Len(M[i + 1]) THEN Thrown("TypeError")
    ELSE BackSubstituteSum(M, sol, i, j + 1,
                           Subtract(sum, Multiply(M[i + 1][j + 1], sol[j + 1])))

\* extractSolutionFromREFFractions: the loop for (i = n - 1; i >= 0; i--)
RECURSIVE BackSubstitute(_, _, _)
BackSubstitute(M, sol, i) ==
    IF i < 0 THEN [threw |-> FALSE, solution |-> sol]
    ELSE IF i < Len(M[1]) - 1
    THEN LET sum == BackSubstituteSum(M, sol, i, i + 1, M[i + 1][Len(M[i + 1])])
         IN IF Threw(sum) THEN [threw |-> TRUE, solution |-> sol]
            ELSE IF ~isNearZero(M[i + 1][i + 1])
            THEN LET q == Divide(sum, M[i + 1][i + 1])
                 IN IF Threw(q) THEN [threw |-> TRUE, solution |-> sol]
                    ELSE BackSubstitute(M, [sol EXCEPT ![i + 1] = q], i - 1)
            ELSE BackSubstitute(M, sol, i - 1)
    ELSE BackSubstitute(M, sol, i - 1)

\* extractSolutionFromREFFractions
extractSolutionFromREFFractions(M) ==
    BackSubstitute(M, [i \in 1..Len(M) |-> NewFraction(0, 1)], Len(M) - 1)

\* classifyAugmentedSystemFractions with the last two tests in the other order
classifyInfiniteFirst(M) ==
    LET rows == Len(M)
        cols == IF rows = 0 THEN 0 ELSE Len(M[1])
        hasCoeff(i) == \E j \in 1..Len(M[i]) : j - 1 < cols - 1 /\ ~isNearZero(M[i][j])
        hasAny(i) == \E j \in 1..Len(M[i]) : ~isNearZero(M[i][j])
        rankA == Cardinality({i \in 1..rows : hasCoeff(i)})
        rankAugmented == Cardinality({i \in 1..rows : hasAny(i)})
    IN IF rankA < cols - 1 THEN "infinite"
       ELSE IF rankA < rankAugmented THEN "none"
       ELSE "unique"

\* classifyAugmentedSystemFractions
classifyAugmentedSystemFractions(M) ==
    LET rows == Len(M)
        cols == IF rows = 0 THEN 0 ELSE Len(M[1])
        hasCoeff(i) == \E j \in 1..Len(M[i]) : j - 1 < cols - 1 /\ ~isNearZero(M[i][j])
        hasAny(i) == \E j \in 1..Len(M[i]) : ~isNearZero(M[i][j])
        rankA == Cardinality({i \in 1..rows : hasCoeff(i)})
        rankAugmented == Cardinality({i \in 1..rows : hasAny(i)})
    IN IF rankA < rankAugmented THEN "none"
       ELSE IF rankA < cols - 1 THEN "infinite"
       ELSE "unique"

(***************************************************************************)
(* Inputs: every matrix of a small shape with entries in -MaxVal..MaxVal,  *)
(* every 0/1 matrix of a larger shape, and the worked examples.            *)
(***************************************************************************)
SmallShapes == {<<1, 2>>, <<1, 3>>, <<2, 2>>, <<2, 3>>, <<3, 2>>}
LargeShapes == {<<3, 3>>, <<2, 4>>, <<3, 4>>}
SmallVals == {Num(v) : v \in -MaxVal..MaxVal}
BinaryVals == {Num(0), Num(1)}

MatricesOf(shapes, vals) ==
    UNION {[1..s[1] -> [1..s[2] -> vals]] : s \in shapes}

NumberMatrix(M) == [i \in 1..Len(M) |-> [j \in 1..Len(M[i]) |-> Num(M[i][j])]]

ExampleUnique == NumberMatrix(<< <<1, 0, 5>>, <<0, 1, 3>> >>)
ExampleInfinite == NumberMatrix(<< <<1, 1, 2>>, <<1, 1, 2>> >>)
ExampleNone == NumberMatrix(<< <<1, 1, 2>>, <<0, 0, 5>> >>)
ExampleEndToEnd ==
    NumberMatrix(<< <<2, 1, 3, 1>>, <<3, 2, 1, 4>>, <<1, -1, 2, 3>> >>)
\* a caller may pass Fractions as well as numbers
ExampleFractions ==
    << <<NewFraction(1, 2), Num(1), Num(1)>>,
       <<Num(1), NewFraction(-2, 3), Num(2)>> >>

Inputs ==
    MatricesOf(SmallShapes, SmallVals) \cup MatricesOf(LargeShapes, BinaryVals)
    \cup {ExampleUnique, ExampleInfinite, ExampleNone, ExampleEndToEnd,
          ExampleFractions}

FractionIdle ==
    /\ f1 = Num(0)
    /\ f2 = Num(0)
    /\ fop = "init"
    /\ fresult = Num(0)

\* The caller holds a matrix: an outer array of freshly built row arrays.
InitWith(inputs) ==
    /\ FractionIdle
    /\ PageIdle
    /\ input0 \in inputs
    /\ first = NoRun
    /\ pivots = <<>>
    /\ rowsHeap = input0
    /\ arrays = << [i \in 1..Len(input0) |-> i] >>
    /\ augmentedMatrix = 1
    /\ engine = "none"
    /\ pc = "idle"
    /\ m = 0
    /\ steps = <<>>
    /\ col = 0
    /\ currentRow = 0
    /\ result = 0
    /\ solution = <<>>
    /\ classification = ""

Init == InitWith(Inputs)

Store == [arrays |-> arrays, rowsHeap |-> rowsHeap, steps |-> steps, threw |-> FALSE]

\* Both engines up to the column loop: conversion of the input and the
\* "Initial" step.
Begin(name) ==
    LET c == ConvertInput(arrays, rowsHeap, augmentedMatrix)
        st == PushStep([Store EXCEPT !.arrays = c.arrays, !.rowsHeap = c.rowsHeap,
                                     !.steps = <<>>],
                       c.ref, "Initial", "Starting augmented matrix [A|b]")
    IN /\ engine' = name
       /\ pc' = "loop"
       /\ m' = c.ref
       /\ arrays' = st.arrays
       /\ rowsHeap' = st.rowsHeap
       /\ steps' = st.steps
       /\ col' = 0
       /\ currentRow' = 0
       /\ pivots' = <<>>
       /\ UNCHANGED <<augmentedMatrix, input0, result, solution, classification>>
       /\ UNCHANGED fvars
       /\ UNCHANGED pvars

\* a call of an engine by a caller that has called nothing yet
Start(name) ==
    /\ pc = "idle"
    /\ Begin(name)
    /\ UNCHANGED first

GaussianStart == Start("gaussian")

GaussJordanStart == Start("gaussJordan")

\* the loop bound Math.min(rows, cols - 1)
LoopBound == LET M == MatrixOf(arrays, rowsHeap, m)
             IN Min(RowCount(M), ColCount(M) - 1)

\* One iteration of gaussianEliminationWithFractions' column loop.
GaussianColumn ==
    /\ pc = "loop"
    /\ engine = "gaussian"
    /\ col < LoopBound
    /\ LET st == GaussianBody(Store, m, col)
       IN /\ arrays' = st.arrays
          /\ rowsHeap' = st.rowsHeap
          /\ steps' = st.steps
          /\ pc' = IF st.threw THEN "threw" ELSE "loop"
    /\ col' = col + 1
    /\ UNCHANGED <<augmentedMatrix, input0, engine, m, currentRow, result,
                   solution, classification>>
    /\ UNCHANGED fvars
    /\ UNCHANGED pvars
    /\ UNCHANGED hvars

\* return { result: m, steps }
GaussianReturn ==
    /\ pc = "loop"
    /\ engine = "gaussian"
    /\ ~(col < LoopBound)
    /\ result' = m
    /\ pc' = "done"
    /\ UNCHANGED <<arrays, rowsHeap, augmentedMatrix, input0, engine, m, steps,
                   col, currentRow, solution, classification>>
    /\ UNCHANGED fvars
    /\ UNCHANGED pvars
    /\ UNCHANGED hvars

\* some candidate row (row >= cur, 0-based) has a nonzero entry in column c
HasPivot(M, cur, c) == \E r \in (cur + 1)..Len(M) : M[r][c + 1].numerator # 0

\* Mutant of the column loop's iteration: a column with a zero pivot leaves
\* currentRow where it is.
GaussJordanColumnKeepingRow ==
    /\ pc = "loop"
    /\ engine = "gaussJordan"
    /\ col < LoopBound
    /\ ~(currentRow >= RowCount(MatrixOf(arrays, rowsHeap, m)))
    /\ LET st == GaussJordanBody(Store, m, currentRow, col)
       IN /\ arrays' = st.arrays
          /\ rowsHeap' = st.rowsHeap
          /\ steps' = st.steps
          /\ pc' = IF st.threw THEN "threw" ELSE "loop"
    /\ currentRow' = IF HasPivot(MatrixOf(arrays, rowsHeap, m), currentRow, col)
                     THEN currentRow + 1 ELSE currentRow
    /\ col' = col + 1
    /\ pivots' = IF HasPivot(MatrixOf(arrays, rowsHeap, m), currentRow, col)
                 THEN Append(pivots, [row |-> currentRow, col |-> col,
                                      before |-> Len(steps), at |-> Len(steps')])
                 ELSE pivots
    /\ UNCHANGED <<augmentedMatrix, input0, engine, m, result, solution,
                   classification, first>>
    /\ UNCHANGED fvars
    /\ UNCHANGED pvars

\* One iteration of gaussJordanWithFractions' column loop; pivots records
\* the iterations that found a pivot, with the trace length before and after.
GaussJordanColumn ==
    /\ pc = "loop"
    /\ engine = "gaussJordan"
    /\ col < LoopBound
    /\ ~(currentRow >= RowCount(MatrixOf(arrays, rowsHeap, m)))
    /\ LET st == GaussJordanBody(Store, m, currentRow, col)
       IN /\ arrays' = st.arrays
          /\ rowsHeap' = st.rowsHeap
          /\ steps' = st.steps
          /\ pc' = IF st.threw THEN "threw" ELSE "loop"
    /\ currentRow' = currentRow + 1
    /\ col' = col + 1
    /\ pivots' = IF HasPivot(MatrixOf(arrays, rowsHeap, m), currentRow, col)
                 THEN Append(pivots, [row |-> currentRow, col |-> col,
                                      before |-> Len(steps), at |-> Len(steps')])
                 ELSE pivots
    /\ UNCHANGED <<augmentedMatrix, input0, engine, m, result, solution,
                   classification, first>>
    /\ UNCHANGED fvars
    /\ UNCHANGED pvars

\* the loop ends (bound reached, or break on currentRow >= rows);
\* return { result: m, steps }
GaussJordanReturn ==
    /\ pc = "loop"
    /\ engine = "gaussJordan"
    /\ \/ ~(col < LoopBound)
       \/ currentRow >= RowCount(MatrixOf(arrays, rowsHeap, m))
    /\ result' = m
    /\ pc' = "done"
    /\ UNCHANGED <<arrays, rowsHeap, augmentedMatrix, input0, engine, m, steps,
                   col, currentRow, solution, classification>>
    /\ UNCHANGED fvars
    /\ UNCHANGED pvars
    /\ UNCHANGED hvars

\* gaussianEliminationWithSteps: extractSolutionFromREFFractions(refMatrix)
ExtractREF ==
    /\ pc = "done"
    /\ engine = "gaussian"
    /\ LET x == extractSolutionFromREFFractions(MatrixOf(arrays, rowsHeap, result))
       IN /\ solution' = x.solution
          /\ pc' = IF x.threw THEN "threw" ELSE "extracted"
    /\ UNCHANGED <<arrays, rowsHeap, augmentedMatrix, input0, engine, m, steps,
                   col, currentRow, result, classification>>
    /\ UNCHANGED fvars
    /\ UNCHANGED pvars
    /\ UNCHANGED hvars

\* gaussJordanWithSteps: extractSolutionFromRREFFractions(rrefMatrix)
ExtractRREF ==
    /\ pc = "done"
    /\ engine = "gaussJordan"
    /\ solution' = extractSolutionFromRREFFractions(MatrixOf(arrays, rowsHeap, result))
    /\ pc' = "extracted"
    /\ UNCHANGED <<arrays, rowsHeap, augmentedMatrix, input0, engine, m, steps,
                   col, currentRow, result, classification>>
    /\ UNCHANGED fvars
    /\ UNCHANGED pvars
    /\ UNCHANGED hvars

\* classifyAugmentedSystemFractions applied to the caller's matrix
ClassifyInput ==
    /\ pc = "idle"
    /\ engine' = "classify"
    /\ classification' = classifyAugmentedSystemFractions(
                            numberMatrixToFractions(
                               MatrixOf(arrays, rowsHeap, augmentedMatrix)))
    /\ pc' = "classified"
    /\ UNCHANGED <<arrays, rowsHeap, augmentedMatrix, input0, m, steps, col,
                   currentRow, result, solution>>
    /\ UNCHANGED fvars
    /\ UNCHANGED pvars
    /\ UNCHANGED hvars

\* classifyAugmentedSystemFractions applied to the matrix an engine returned
ClassifyResult ==
    /\ pc = "done"
    /\ classification' = classifyAugmentedSystemFractions(
                            MatrixOf(arrays, rowsHeap, result))
    /\ pc' = "classified"
    /\ UNCHANGED <<arrays, rowsHeap, augmentedMatrix, input0, engine, m, steps,
                   col, currentRow, result, solution>>
    /\ UNCHANGED fvars
    /\ UNCHANGED pvars
    /\ UNCHANGED hvars

Next ==
    \/ GaussianStart
    \/ GaussianColumn
    \/ GaussianReturn
    \/ GaussJordanStart
    \/ GaussJordanColumn
    \/ GaussJordanReturn
    \/ ExtractREF
    \/ ExtractRREF
    \/ ClassifyInput
    \/ ClassifyResult

Spec == Init /\ [][Next]_vars

(***************************************************************************)
(* A caller that calls the same engine a second time on the same matrix,   *)
(* keeping what the first call returned.                                   *)
(***************************************************************************)
TwiceInputs ==
    MatricesOf({<<2, 2>>}, SmallVals)
    \cup MatricesOf({<<2, 3>>, <<3, 2>>, <<3, 3>>}, BinaryVals)
    \cup {ExampleEndToEnd, ExampleFractions}

InitTwice == InitWith(TwiceInputs)

Again(name) ==
    /\ pc = "done"
    /\ engine = name
    /\ first = NoRun
    /\ first' = [engine |-> engine, result |-> result, steps |-> steps]
    /\ Begin(name)

GaussianAgain == Again("gaussian")

GaussJordanAgain == Again("gaussJordan")

NextTwice ==
    \/ GaussianStart
    \/ GaussianColumn
    \/ GaussianReturn
    \/ GaussJordanStart
    \/ GaussJordanColumn
    \/ GaussJordanReturn
    \/ GaussianAgain
    \/ GaussJordanAgain

SpecTwice == InitTwice /\ [][NextTwice]_vars

(***************************************************************************)
(* The numeric solvers of lib/matrixUtils.ts.  A JavaScript number is      *)
(* modelled by the exact rational it stands for, a pair <<n, d>> in lowest *)
(* terms with d > 0; <<0, 0>> stands for the values that are not finite    *)
(* (Infinity, -Infinity, NaN), which only a division by zero produces      *)
(* here and which every later operation of these solvers keeps not         *)
(* finite.  Rounding is left out: for the small integer matrices of the    *)
(* model it is many orders of magnitude below EPS = 1e-10 and below every  *)
(* nonzero exact value, so that no test against EPS is changed by it.      *)
(***************************************************************************)
NotFinite == <<0, 0>>
Finite(a) == a[2] # 0

\* the number n / d (d # 0)
Ratio(n, d) ==
    LET g == gcd(Abs(n), Abs(d))
    IN IF n = 0 THEN <<0, 1>>
       ELSE IF d < 0 THEN <<(-n) \div g, (-d) \div g>>
       ELSE <<n \div g, d \div g>>

Whole(n) == <<n, 1>>

\* a + b, a - b, a * b, a / b on JavaScript numbers
NumAdd(a, b) == IF Finite(a) /\ Finite(b)
                THEN Ratio(a[1] * b[2] + b[1] * a[2], a[2] * b[2]) ELSE NotFinite
NumSub(a, b) == IF Finite(a) /\ Finite(b)
                THEN Ratio(a[1] * b[2] - b[1] * a[2], a[2] * b[2]) ELSE NotFinite
NumMul(a, b) == IF Finite(a) /\ Finite(b)
                THEN Ratio(a[1] * b[1], a[2] * b[2]) ELSE NotFinite
\* x / 0 is Infinity, -Infinity or NaN and raises nothing
NumDiv(a, b) == IF Finite(a) /\ Finite(b) /\ b[1] # 0
                THEN Ratio(a[1] * b[2], a[2] * b[1]) ELSE NotFinite
NumNeg(a) == IF Finite(a) THEN <<-a[1], a[2]>> ELSE NotFinite

\* Math.abs(a) > Math.abs(b), on finite numbers
NumAbsGreater(a, b) == Abs(a[1]) * b[2] > Abs(b[1]) * a[2]

\* Math.abs(a) < EPS with EPS = 1e-10 (false of a value that is not finite)
BelowEPS(a) ==
    Finite(a) /\ Abs(a[1]) < CeilDiv(CeilDiv(a[2], EpsilonRoot), EpsilonRoot)

\* what a call produced: a returned value, or a thrown Error
Returned(v) == [ok |-> TRUE, value |-> v]
Raised(msg) == [ok |-> FALSE, error |-> msg]

\* a matrix of integers as a matrix of JavaScript numbers
IntMatrix(M) == [i \in 1..Len(M) |-> [j \in 1..Len(M[i]) |-> Whole(M[i][j])]]
IntVector(v) == [i \in 1..Len(v) |-> Whole(v[i])]

\* swapRows
swapRows(A, i, j) ==
    [r \in 1..Len(A) |-> IF r = i + 1 THEN A[j + 1] ELSE IF r = j + 1 THEN A[i + 1] ELSE A[r]]

\* identity
identity(n) == [i \in 1..n |-> [j \in 1..n |-> IF i = j THEN Whole(1) ELSE Whole(0)]]

\* isSquare
isSquare(A) == Len(A) > 0 /\ \A i \in 1..Len(A) : Len(A[i]) = Len(A)

\* the partial-pivoting loop shared by gaussianElimination, inverseMatrix and
\* determinant: for (i = k + 1; i < n; i++) if (|M[i][k]| > maxVal) ...
RECURSIVE FindPivotRow(_, _, _, _, _)
FindPivotRow(M, k, i, n, pivotRow) ==
    IF i >= n THEN pivotRow
    ELSE IF NumAbsGreater(M[i + 1][k + 1], M[pivotRow + 1][k + 1])
    THEN FindPivotRow(M, k, i + 1, n, i)
    ELSE FindPivotRow(M, k, i + 1, n, pivotRow)

\* for each row i in rows: factor = M[i][k] / M[k][k] (divide = TRUE) or
\* M[i][k]; for (j = from; j <= to; j++) M[i][j] -= factor * M[k][j].
\* The pivot row k is not among rows, so the rows can be taken in any order.
SubtractPivotRow(M, k, rows, from, to, divide) ==
    [i \in 1..Len(M) |->
        IF i - 1 \in rows
        THEN LET factor == IF divide THEN NumDiv(M[i][k + 1], M[k + 1][k + 1])
                           ELSE M[i][k + 1]
             IN [j \in 1..Len(M[i]) |->
                    IF j - 1 >= from /\ j - 1 <= to
                    THEN NumSub(M[i][j], NumMul(factor, M[k + 1][j]))
                    ELSE M[i][j]]
        ELSE M[i]]

\* sum over j in from..(to - 1) of row[j] * x[j]  (0-based j)
RECURSIVE SumProducts(_, _, _, _)
SumProducts(row, x, from, to) ==
    IF to <= from THEN Whole(0)
    ELSE NumAdd(SumProducts(row, x, from, to - 1), NumMul(row[to], x[to]))

\* gaussianElimination: the elimination loop for (k = 0; k < n; k++)
RECURSIVE GaussianEliminationLoop(_, _, _)
GaussianEliminationLoop(M, k, n) ==
    IF k >= n THEN Returned(M)
    ELSE LET pivotRow == FindPivotRow(M, k, k + 1, n, k)
         IN IF BelowEPS(M[pivotRow + 1][k + 1])
            THEN Raised("Matrix is singular or nearly singular.")
            ELSE LET S == IF pivotRow # k THEN swapRows(M, k, pivotRow) ELSE M
                 IN GaussianEliminationLoop(
                       SubtractPivotRow(S, k, (k + 1)..(n - 1), k, n, TRUE), k + 1, n)

\* gaussianElimination: back substitution for (i = n - 1; i >= 0; i--)
RECURSIVE NumericBackSubstitution(_, _, _, _)
NumericBackSubstitution(M, x, i, n) ==
    IF i < 0 THEN x
    ELSE LET sum == NumSub(M[i + 1][n + 1], SumProducts(M[i + 1], x, i + 1, n))
         IN NumericBackSubstitution(
               M, [x EXCEPT ![i + 1] = NumDiv(sum, M[i + 1][i + 1])], i - 1, n)

\* gaussianElimination
gaussianElimination(A, b) ==
    LET n == Len(A)
        M == [i \in 1..n |-> Append(A[i], b[i])]
        E == GaussianEliminationLoop(M, 0, n)
    IN IF ~E.ok THEN E
       ELSE Returned(NumericBackSubstitution(E.value, [i \in 1..n |-> Whole(0)], n - 1, n))

\* luFactorization: sum of L[r][j] * U[j][c] for (j = 0; j < i; j++)
RECURSIVE LuSum(_, _, _, _, _)
LuSum(L, U, r, c, i) ==
    IF i <= 0 THEN Whole(0)
    ELSE NumAdd(LuSum(L, U, r, c, i - 1), NumMul(L[r + 1][i], U[i][c + 1]))

\* luFactorization: the loop for (k = i; k < n; k++) U[i][k] = A[i][k] - sum
RECURSIVE LuRowOfU(_, _, _, _, _, _)
LuRowOfU(A, L, U, i, k, n) ==
    IF k >= n THEN U
    ELSE LuRowOfU(A, L,
                  [U EXCEPT ![i + 1][k + 1] = NumSub(A[i + 1][k + 1], LuSum(L, U, i, k, i))],
                  i, k + 1, n)

\* luFactorization: the loop for (k = i + 1; k < n; k++), with its
\* zero-pivot test on U[i][i]
RECURSIVE LuColumnOfL(_, _, _, _, _, _)
LuColumnOfL(A, L, U, i, k, n) ==
    IF k >= n THEN Returned(L)
    ELSE IF BelowEPS(U[i + 1][i + 1])
    THEN Raised("Zero pivot encountered in LU factorization.")
    ELSE LuColumnOfL(A,
                     [L EXCEPT ![k + 1][i + 1] =
                         NumDiv(NumSub(A[k + 1][i + 1], LuSum(L, U, k, i, i)),
                                U[i + 1][i + 1])],
                     U, i, k + 1, n)

\* luFactorization: the loop for (i = 0; i < n; i++)
RECURSIVE LuLoop(_, _, _, _, _)
LuLoop(A, L, U, i, n) ==
    IF i >= n THEN Returned([L |-> L, U |-> U])
    ELSE LET U1 == LuRowOfU(A, L, U, i, i, n)
             L1 == LuColumnOfL(A, L, U1, i, i + 1, n)
         IN IF ~L1.ok THEN L1 ELSE LuLoop(A, L1.value, U1, i + 1, n)

\* luFactorization
luFactorization(A) ==
    IF ~isSquare(A) THEN Raised("Matrix must be square for LU factorization.")
    ELSE LuLoop(A, identity(Len(A)),
                [i \in 1..Len(A) |-> [j \in 1..Len(A) |-> Whole(0)]], 0, Len(A))

\* luFactorizationWithSteps: forward substitution Ly = b
RECURSIVE ForwardSubstitution(_, _, _, _, _)
ForwardSubstitution(L, b, y, i, n) ==
    IF i >= n THEN y
    ELSE ForwardSubstitution(
            L, b,
            [y EXCEPT ![i + 1] = NumDiv(NumSub(b[i + 1], SumProducts(L[i + 1], y, 0, i)),
                                        L[i + 1][i + 1])],
            i + 1, n)

\* luFactorizationWithSteps: back substitution Ux = y
RECURSIVE LuBackSubstitution(_, _, _, _, _)
LuBackSubstitution(U, y, x, i, n) ==
    IF i < 0 THEN x
    ELSE LuBackSubstitution(
            U, y,
            [x EXCEPT ![i + 1] = NumDiv(NumSub(y[i + 1], SumProducts(U[i + 1], x, i + 1, n)),
                                        U[i + 1][i + 1])],
            i - 1, n)

Step(title, description, data) ==
    [title |-> title, description |-> description, data |-> data]

\* luFactorizationWithSteps
luFactorizationWithSteps(A, b) ==
    LET n == Len(A)
        lu == luFactorization(A)
    IN IF ~lu.ok THEN lu
       ELSE LET zeros == [i \in 1..n |-> Whole(0)]
                y == ForwardSubstitution(lu.value.L, b, zeros, 0, n)
                x == LuBackSubstitution(lu.value.U, y, zeros, n - 1, n)
            IN Returned(
                 [result |-> x,
                  steps |->
                    << Step("Step 1: Initial Matrix A and Vector b",
                            "Starting with matrix A and vector b",
                            [i \in 1..n |-> Append(A[i], b[i])]),
                       Step("Step 2: Lower Triangular Matrix (L)",
                            "L matrix from LU decomposition", lu.value.L),
                       Step("Step 3: Upper Triangular Matrix (U)",
                            "U matrix from LU decomposition", lu.value.U),
                       Step("Step 4: Forward Substitution (Ly = b)",
                            "Solving Ly = b gives y vector", y),
                       Step("Step 5: Back Substitution (Ux = y)",
                            "Solving Ux = y gives solution x", x) >>])

\* inverseMatrix: the loop for (i = 0; i < n; i++) on M = [A | I]
RECURSIVE InverseLoop(_, _, _)
InverseLoop(M, i, n) ==
    IF i >= n THEN Returned(M)
    ELSE LET pivotRow == FindPivotRow(M, i, i + 1, n, i)
         IN IF BelowEPS(M[pivotRow + 1][i + 1])
            THEN Raised("Matrix is singular or nearly singular.")
            ELSE LET S == IF pivotRow # i THEN swapRows(M, i, pivotRow) ELSE M
                     pivot == S[i + 1][i + 1]
                     D == [S EXCEPT ![i + 1] =
                              [j \in 1..Len(S[i + 1]) |->
                                  IF j - 1 < 2 * n THEN NumDiv(S[i + 1][j], pivot)
                                  ELSE S[i + 1][j]]]
                 IN InverseLoop(
                       SubtractPivotRow(D, i, (0..(n - 1)) \ {i}, 0, 2 * n - 1, FALSE),
                       i + 1, n)

\* inverseMatrix
inverseMatrix(A) ==
    IF ~isSquare(A) THEN Raised("Matrix must be square to compute inverse.")
    ELSE LET n == Len(A)
             R == InverseLoop([i \in 1..n |-> A[i] \o identity(n)[i]], 0, n)
         IN IF ~R.ok THEN R
            ELSE Returned([i \in 1..n |-> SubSeq(R.value[i], n + 1, 2 * n)])

\* determinant: the loop for (k = 0; k < n; k++), carrying det and swaps
RECURSIVE DeterminantLoop(_, _, _, _, _)
DeterminantLoop(M, k, n, det, swaps) ==
    IF k >= n THEN (IF swaps % 2 = 0 THEN det ELSE NumNeg(det))
    ELSE LET pivotRow == FindPivotRow(M, k, k + 1, n, k)
         IN IF BelowEPS(M[pivotRow + 1][k + 1]) THEN Whole(0)
            ELSE LET S == IF pivotRow # k THEN swapRows(M, k, pivotRow) ELSE M
                 IN DeterminantLoop(
                       SubtractPivotRow(S, k, (k + 1)..(n - 1), k, n - 1, TRUE),
                       k + 1, n, NumMul(det, S[k + 1][k + 1]),
                       IF pivotRow # k THEN swaps + 1 ELSE swaps)

\* determinant (of a square matrix, as cramersRule calls it)
determinant(A) == DeterminantLoop(A, 0, Len(A), Whole(1), 0)

\* cramersRule
cramersRule(A, b) ==
    IF ~isSquare(A) THEN Raised("Matrix must be square for Cramer's Rule.")
    ELSE LET detA == determinant(A)
             n == Len(A)
         IN IF BelowEPS(detA) THEN Raised("det(A) = 0, no unique solution.")
            ELSE Returned(
                   [c \in 1..n |->
                      NumDiv(determinant([row \in 1..n |-> [A[row] EXCEPT ![c] = b[row]]]),
                             detA)])

(***************************************************************************)
(* The engines as whole calls, for the callers that use what they return:  *)
(* the column loop is run to its end on a store of the call's own.         *)
(***************************************************************************)
RECURSIVE GaussianColumns(_, _, _)
GaussianColumns(st, mref, c) ==
    LET M == Working(st, mref)
    IN IF st.threw \/ ~(c < Min(RowCount(M), ColCount(M) - 1)) THEN st
       ELSE GaussianColumns(GaussianBody(st, mref, c), mref, c + 1)

RECURSIVE GaussJordanColumns(_, _, _, _)
GaussJordanColumns(st, mref, cur, c) ==
    LET M == Working(st, mref)
    IN IF st.threw \/ ~(c < Min(RowCount(M), ColCount(M) - 1)) \/ cur >= RowCount(M)
       THEN st
       ELSE GaussJordanColumns(GaussJordanBody(st, mref, cur, c), mref, cur + 1, c + 1)

\* the store of a call on the matrix value M, after the "Initial" step
CallStore(M) ==
    LET c == ConvertInput(<< [i \in 1..Len(M) |-> i] >>, M, 1)
    IN [ref |-> c.ref,
        st |-> PushStep([arrays |-> c.arrays, rowsHeap |-> c.rowsHeap,
                         steps |-> <<>>, threw |-> FALSE],
                        c.ref, "Initial", "Starting augmented matrix [A|b]")]

\* { result: m, steps } as values
CallResult(st, mref) ==
    [threw |-> st.threw,
     result |-> Working(st, mref),
     steps |-> [k \in 1..Len(st.steps) |->
                  [matrix |-> MatrixOf(st.arrays, st.rowsHeap, st.steps[k].matrix),
                   operation |-> st.steps[k].operation,
                   description |-> st.steps[k].description]]]

\* gaussianEliminationWithFractions(M)
gaussianEliminationWithFractions(M) ==
    LET c == CallStore(M) IN CallResult(GaussianColumns(c.st, c.ref, 0), c.ref)

\* gaussJordanWithFractions(M)
gaussJordanWithFractions(M) ==
    LET c == CallStore(M) IN CallResult(GaussJordanColumns(c.st, c.ref, 0, 0), c.ref)

(***************************************************************************)
(* lib/solverWithSteps.ts: each solver with the steps the page shows.      *)
(* A and b are the page's matrix and vector, of integers.                  *)
(***************************************************************************)
\* A.map((row, i) => [...row, b[i]])
Augmented(A, b) == [i \in 1..Len(A) |-> Append(A[i], b[i])]

\* elimSteps.map(...) followed by the push of the "Solution" step
SolverSteps(elimSteps, description, x) ==
    Append([k \in 1..Len(elimSteps) |->
               Step(elimSteps[k].operation, elimSteps[k].description, elimSteps[k].matrix)],
           Step("Solution", description, x))

\* what gaussianEliminationWithSteps does with the engine's value e and the
\* extracted solution x
GaussianSolved(e, x) ==
    IF x.threw THEN Raised("TypeError")
    ELSE Returned([result |-> x.solution,
                   steps |-> SolverSteps(e.steps,
                                "Back substitution complete - final solution",
                                x.solution)])

\* gaussianEliminationWithSteps
\* gaussianEliminationWithSteps after the engine returned e
GaussianOutcome(e) ==
    IF e.threw THEN Raised("Division by zero")
    ELSE GaussianSolved(e, extractSolutionFromREFFractions(e.result))

gaussianEliminationWithSteps(A, b) ==
    GaussianOutcome(gaussianEliminationWithFractions(NumberMatrix(Augmented(A, b))))

\* what gaussJordanWithSteps does with the engine's value e and the extracted
\* solution x
GaussJordanSolved(e, x) ==
    Returned([result |-> x,
              steps |-> SolverSteps(e.steps,
                 "Gauss-Jordan elimination complete - solution extracted from RREF",
                 x)])

\* gaussJordanWithSteps
\* gaussJordanWithSteps after the engine returned e
GaussJordanOutcome(e) ==
    IF e.threw THEN Raised("Division by zero")
    ELSE GaussJordanSolved(e, extractSolutionFromRREFFractions(e.result))

gaussJordanWithSteps(A, b) ==
    GaussJordanOutcome(gaussJordanWithFractions(NumberMatrix(Augmented(A, b))))

\* cramersRuleWithSteps; the first call of cramersRule, on a vector of ones,
\* is made inside a try whose catch is empty and whose value is not used
cramersRuleWithSteps(A, b) ==
    LET r == cramersRule(IntMatrix(A), IntVector(b))
    IN IF ~r.ok THEN r
       ELSE Returned(
              [result |-> r.value,
               steps |-> << Step("Step 1: Set up Cramer's Rule",
                                 "We will compute x_i = det(A_i) / det(A) for each variable",
                                 IntMatrix(A)),
                            Step("Step " \o ToString(Len(A) + 2) \o ": Solution Found",
                                 "All variables computed using Cramer's rule",
                                 r.value) >>])

\* inverseMatrixWithSteps
inverseMatrixWithSteps(A) ==
    LET r == inverseMatrix(IntMatrix(A))
    IN IF ~r.ok THEN r
       ELSE Returned(
              [result |-> r.value,
               steps |-> << Step("Step 1: Initial Matrix A",
                                 "Matrix to invert using Gauss-Jordan", IntMatrix(A)),
                            Step("Step 2: Inverse Matrix A^-1",
                                 "Computed using augmented matrix [A|I]", r.value) >>])

(***************************************************************************)
(* One call of a numeric solver on a square matrix A and a vector b.       *)
(***************************************************************************)
SquareShapes == {2}
BinaryShapes == {3}
NumericInputs ==
    UNION {[1..n -> [1..n -> -MaxVal..MaxVal]] \X [1..n -> {0, 1}] : n \in SquareShapes}
    \cup UNION {[1..n -> [1..n -> {0, 1}]] \X {[i \in 1..n |-> 1]} : n \in BinaryShapes}

InitNumeric ==
    /\ FractionIdle
    /\ EngineIdle

NumericCall(name, A, b, outcome) ==
    /\ numeric.solver = "none"
    /\ numeric' = [solver |-> name, A |-> A, b |-> b, outcome |-> outcome]
    /\ UNCHANGED <<home, last>>
    /\ UNCHANGED fvars
    /\ UNCHANGED evars

GaussianEliminationCall ==
    \E input \in NumericInputs :
        NumericCall("gaussianElimination", input[1], input[2],
                    gaussianElimination(IntMatrix(input[1]), IntVector(input[2])))

InverseMatrixCall ==
    \E input \in NumericInputs :
        NumericCall("inverseMatrix", input[1], input[2], inverseMatrix(IntMatrix(input[1])))

CramersRuleCall ==
    \E input \in NumericInputs :
        NumericCall("cramersRule", input[1], input[2],
                    cramersRule(IntMatrix(input[1]), IntVector(input[2])))

\* the LU-based solve: luFactorization, then the two substitutions
LuSolveCall ==
    \E input \in NumericInputs :
        LET r == luFactorizationWithSteps(IntMatrix(input[1]), IntVector(input[2]))
        IN NumericCall("luSolve", input[1], input[2],
                       IF r.ok THEN Returned(r.value.result) ELSE r)

NextNumeric ==
    \/ GaussianEliminationCall
    \/ InverseMatrixCall
    \/ CramersRuleCall
    \/ LuSolveCall

SpecNumeric == InitNumeric /\ [][NextNumeric]_vars

(***************************************************************************)
(* The calculator page (Home): its state and its handlers.                 *)
(***************************************************************************)
Methods == {"inverse", "gaussElim", "gaussJordan", "lu", "cramer"}
Sizes == 2..5

presets ==
    << [method |-> "gaussElim", size |-> 3,
        matrix |-> << <<2, 1, 3>>, <<4, 3, 5>>, <<6, 5, 5>> >>,
        bVector |-> <<1, 1, -3>>],
       [method |-> "gaussElim", size |-> 4,
        matrix |-> << <<2, -1, -3, 1>>, <<1, 1, 1, -2>>, <<3, 2, -3, -4>>,
                      <<-1, -4, 1, 1>> >>,
        bVector |-> <<9, 10, 6, 6>>],
       [method |-> "inverse", size |-> 3,
        matrix |-> << <<1, 2, -3>>, <<-1, 1, -1>>, <<0, -2, 3>> >>,
        bVector |-> ZeroVector(3)],
       [method |-> "inverse", size |-> 3,
        matrix |-> << <<1, 2, 3>>, <<-1, -1, -1>>, <<1, 2, 3>> >>,
        bVector |-> <<5, 3, -1>>] >>

\* the cells the user types into, and what is typed
EditCells == {<<0, 0>>}
EditValues == {2}

\* a handler ran: the page's new state, and the history of it
Handled(name, h) ==
    /\ home' = h
    /\ last' = [solve |-> (name = "handleSolve"), error |-> home.error]
    /\ UNCHANGED numeric
    /\ UNCHANGED fvars
    /\ UNCHANGED evars

applyPreset ==
    \E k \in 1..Len(presets) :
        Handled("applyPreset",
                [method |-> presets[k].method, size |-> presets[k].size,
                 matrix |-> presets[k].matrix, bVector |-> presets[k].bVector,
                 result |-> Null, error |-> Null, steps |-> <<>>,
                 showSteps |-> FALSE])

onSizeChange ==
    \E newSize \in Sizes :
        Handled("onSizeChange",
                [home EXCEPT !.size = newSize, !.matrix = createMatrix(newSize),
                             !.bVector = ZeroVector(newSize), !.error = Null])

\* the switch of handleSolve
RunSolver(method, matrix, bVector) ==
    CASE method = "inverse" -> inverseMatrixWithSteps(matrix)
      [] method = "gaussElim" -> gaussianEliminationWithSteps(matrix, bVector)
      [] method = "gaussJordan" -> gaussJordanWithSteps(matrix, bVector)
      [] method = "lu" -> luFactorizationWithSteps(IntMatrix(matrix), IntVector(bVector))
      [] method = "cramer" -> cramersRuleWithSteps(matrix, bVector)
      [] OTHER -> Returned([result |-> <<>>, steps |-> <<>>])

\* handleSolve without its first statement, setError(null)
SolvedKeepingError(h) ==
    LET cleared == [h EXCEPT !.steps = <<>>, !.showSteps = FALSE]
        r == RunSolver(h.method, h.matrix, h.bVector)
    IN IF r.ok
       THEN [cleared EXCEPT !.result = [value |-> r.value.result],
                            !.steps = r.value.steps]
       ELSE [cleared EXCEPT !.error = [message |-> r.error], !.result = Null,
                            !.steps = <<>>]

\* handleSolve whose catch leaves result as it was
SolvedKeepingResult(h) ==
    LET cleared == [h EXCEPT !.error = Null, !.steps = <<>>, !.showSteps = FALSE]
        r == RunSolver(h.method, h.matrix, h.bVector)
    IN IF r.ok
       THEN [cleared EXCEPT !.result = [value |-> r.value.result],
                            !.steps = r.value.steps]
       ELSE [cleared EXCEPT !.error = [message |-> r.error], !.steps = <<>>]

\* the state handleSolve leaves
Solved(h) ==
    LET cleared == [h EXCEPT !.error = Null, !.steps = <<>>, !.showSteps = FALSE]
        r == RunSolver(h.method, h.matrix, h.bVector)
    IN IF r.ok
       THEN [cleared EXCEPT !.result = [value |-> r.value.result],
                            !.steps = r.value.steps]
       ELSE [cleared EXCEPT !.error = [message |-> r.error], !.result = Null,
                            !.steps = <<>>]

handleSolve == Handled("handleSolve", Solved(home))

handleClear ==
    Handled("handleClear",
            [home EXCEPT !.matrix = createMatrix(home.size),
                         !.bVector = ZeroVector(home.size), !.result = Null,
                         !.error = Null, !.steps = <<>>, !.showSteps = FALSE])

\* the button is rendered only while steps.length > 0
ToggleShown(h) == Len(h.steps) > 0

toggleSteps ==
    /\ ToggleShown(home)
    /\ Handled("toggleSteps", [home EXCEPT !.showSteps = ~home.showSteps])

setMethod ==
    \E value \in Methods : Handled("setMethod", [home EXCEPT !.method = value])

\* MatrixInput: newMatrix[row][col] = parseFloat(value) || 0
handleInputChange ==
    \E cell \in EditCells, value \in EditValues :
        /\ cell[1] < home.size
        /\ cell[2] < home.size
        /\ Handled("handleInputChange",
                   [home EXCEPT !.matrix[cell[1] + 1][cell[2] + 1] = value])

\* MatrixInput: newB[row] = parseFloat(value) || 0
handleBChange ==
    \E cell \in EditCells, value \in EditValues :
        /\ cell[1] < home.size
        /\ Handled("handleBChange", [home EXCEPT !.bVector[cell[1] + 1] = value])

InitPage == InitNumeric

NextPage ==
    \/ applyPreset
    \/ onSizeChange
    \/ handleSolve
    \/ handleClear
    \/ toggleSteps
    \/ setMethod
    \/ handleInputChange
    \/ handleBChange

SpecPage == InitPage /\ [][NextPage]_vars

(***************************************************************************)
(* Vocabulary of the properties, defined independently of the code's       *)
(* arithmetic: rationals are pairs <<n, d>> compared by cross              *)
(* multiplication.                                                         *)
(***************************************************************************)
Engines == {"gaussian", "gaussJordan"}

\* no common divisor greater than 1 (a >= 0, b > 0)
Coprime(a, b) == \A k \in 2..b : ~(a % k = 0 /\ b % k = 0)

Canonical(f) ==
    /\ IsFraction(f)
    /\ f.denominator > 0
    /\ \/ f.numerator = 0 /\ f.denominator = 1
       \/ f.numerator # 0 /\ Coprime(Abs(f.numerator), f.denominator)

ZeroValued(x) == IF IsNumber(x) THEN x.number = 0 ELSE x.numerator = 0

Q(cell) == IF IsNumber(cell) THEN <<cell.number, 1>>
           ELSE <<cell.numerator, cell.denominator>>
QAdd(p, q) == <<p[1] * q[2] + q[1] * p[2], p[2] * q[2]>>
QMul(p, q) == <<p[1] * q[1], p[2] * q[2]>>
QNeg(p) == <<-p[1], p[2]>>
QEq(p, q) == p[1] * q[2] = q[1] * p[2]

\* the caller's matrix as Fractions, and the matrices of the trace
InputFractions == numberMatrixToFractions(input0)
ResultMatrix == MatrixOf(arrays, rowsHeap, result)
StepMatrix(k) == MatrixOf(arrays, rowsHeap, steps[k].matrix)

IsZeroRow(r) == \A j \in 1..Len(r) : r[j].numerator = 0
\* column of the leading (first nonzero) entry of a nonzero row
Lead(r) == CHOOSE j \in 1..Len(r) :
              r[j].numerator # 0 /\ \A k \in 1..(j - 1) : r[k].numerator = 0

\* each row's leading entry is strictly right of that of the row above
Staircase(M) ==
    \A i \in 2..Len(M) :
        (~IsZeroRow(M[i]) /\ ~IsZeroRow(M[i - 1])) => Lead(M[i]) > Lead(M[i - 1])

ZeroRowsAtBottom(M) ==
    \A i \in 2..Len(M) : IsZeroRow(M[i - 1]) => IsZeroRow(M[i])

IsRREF(M) ==
    /\ Staircase(M)
    /\ ZeroRowsAtBottom(M)
    /\ \A i \in 1..Len(M) :
          ~IsZeroRow(M[i]) =>
             /\ M[i][Lead(M[i])] = [numerator |-> 1, denominator |-> 1]
             /\ \A k \in 1..Len(M) : k # i => M[k][Lead(M[i])].numerator = 0

\* the coefficient columns of an augmented matrix (all but the last column)
CoefficientPart(M) == [i \in 1..Len(M) |-> SubSeq(M[i], 1, Len(M[i]) - 1)]

\* sum over j in 1..n of row[j] * x[j], as a pair
RECURSIVE DotQ(_, _, _)
DotQ(row, x, n) ==
    IF n = 0 THEN <<0, 1>> ELSE QAdd(DotQ(row, x, n - 1), QMul(Q(row[n]), Q(x[n])))

\* x satisfies every equation of the augmented matrix M
Satisfies(M, x) ==
    \A i \in 1..Len(M) :
        QEq(DotQ(M[i], x, Len(M[i]) - 1), Q(M[i][Len(M[i])]))

\* determinant of the square matrix of pairs, by expansion along the first row
Minor(A, j) ==
    [i \in 1..(Len(A) - 1) |->
        [k \in 1..(Len(A) - 1) |-> A[i + 1][IF k < j THEN k ELSE k + 1]]]
RECURSIVE DetQ(_)
RECURSIVE DetSum(_, _)
DetSum(A, j) ==
    IF j = 0 THEN <<0, 1>>
    ELSE LET term == QMul(A[1][j], DetQ(Minor(A, j)))
         IN QAdd(DetSum(A, j - 1), IF j % 2 = 1 THEN term ELSE QNeg(term))
DetQ(A) == IF Len(A) = 1 THEN A[1][1] ELSE DetSum(A, Len(A))

\* input0 is an n x (n+1) system whose coefficient matrix is nonsingular
NonsingularSystem ==
    /\ Len(input0[1]) = Len(input0) + 1
    /\ LET A == [i \in 1..Len(input0) |-> [j \in 1..Len(input0) |-> Q(input0[i][j])]]
       IN DetQ(A)[1] # 0

(***************************************************************************)
(* Properties.                                                             *)
(***************************************************************************)
\* C1: every Fraction built by the constructor from integers n and d # 0,
\* and every Fraction returned by add, subtract, multiply, divide, abs and
\* negate on canonical operands, is in canonical form: denominator > 0, and
\* numerator = 0 with denominator = 1 or numerator and denominator coprime.
C1_CanonicalForm ==
    /\ (fop = "new" /\ f2.number # 0) => Canonical(fresult)
    /\ (fop \in {"add", "subtract", "multiply", "abs", "negate"}) => Canonical(fresult)
    /\ (fop = "divide" /\ ~ZeroValued(f2)) => Canonical(fresult)

\* C1 happens: a negative denominator and a common factor are normalised.
C1_Witness ==
    /\ fop = "new"
    /\ f1 = Num(2)
    /\ f2 = Num(-4)
    /\ fresult = [numerator |-> -1, denominator |-> 2]

\* C2: subtract(add(a, b), b) equals a, and multiply(divide(a, b), b)
\* equals a for nonzero b, for all a and b including negative ones.
C2_RoundTrip ==
    /\ fop = "add;subtract" => (~Threw(fresult) /\ Equals(fresult, f1))
    /\ fop = "divide;multiply" => (~Threw(fresult) /\ Equals(fresult, f1))

\* C2 happens: a division and multiplication back with both operands negative.
C2_Witness ==
    /\ fop = "divide;multiply"
    /\ f1 = [numerator |-> -3, denominator |-> 4]
    /\ f2 = [numerator |-> -2, denominator |-> 3]
    /\ fresult = f1

\* C3: new Fraction(n, 0) throws for every n, and Fraction.divide(a, b)
\* throws for every a when b is a zero-valued Fraction or the number 0.
C3_DivisionByZero ==
    /\ (fop = "new" /\ f2.number = 0) => Threw(fresult)
    /\ (fop = "divide" /\ ZeroValued(f2)) => Threw(fresult)

\* C3 happens: a nonzero Fraction is divided by the plain number 0.
C3_Witness ==
    /\ fop = "divide"
    /\ f1 = [numerator |-> 1, denominator |-> 2]
    /\ f2 = Num(0)
    /\ Threw(fresult)

\* C4: classifyAugmentedSystemFractions returns "unique" for
\* [[1,0|5],[0,1|3]], "infinite" for [[1,1|2],[1,1|2]] and "none" for
\* [[1,1|2],[0,0|5]].
C4_ClassifierExamples ==
    (engine = "classify" /\ pc = "classified") =>
        /\ input0 = ExampleUnique => classification = "unique"
        /\ input0 = ExampleInfinite => classification = "infinite"
        /\ input0 = ExampleNone => classification = "none"

\* C5: for every n x (n+1) system with nonsingular coefficient matrix, the
\* vector back-substituted from gaussianEliminationWithFractions' result
\* satisfies every original equation exactly.
C5_SolutionSatisfiesSystem ==
    (engine = "gaussian" /\ pc \in {"extracted", "threw"} /\ NonsingularSystem) =>
        /\ pc = "extracted"
        /\ Satisfies(input0, solution)

\* C5 happens: the worked example is solved to (3, -2, -1).
C5_Witness ==
    /\ engine = "gaussian"
    /\ pc = "extracted"
    /\ input0 = ExampleEndToEnd
    /\ solution = << [numerator |-> 3, denominator |-> 1],
                     [numerator |-> -2, denominator |-> 1],
                     [numerator |-> -1, denominator |-> 1] >>

\* C6: the matrix returned by gaussJordanWithFractions is in reduced
\* row-echelon form for every augmented matrix of any shape: leading entries
\* are 1, strictly right of the one above, alone in their column, and
\* all-zero rows are at the bottom.  A matrix in that form keeps it when its
\* last column is dropped, so the property is stated of the coefficient
\* columns: its failure does not rest on the right-hand-side column, which
\* the engine never uses as a pivot column.
C6_ResultIsRREF ==
    (engine = "gaussJordan" /\ pc = "done") => IsRREF(CoefficientPart(ResultMatrix))

\* C7: the matrix returned by gaussianEliminationWithFractions is in
\* row-echelon form for every augmented matrix, singular ones included: each
\* row's leading nonzero entry is strictly right of that of the row above.
\* As for C6 the property is stated of the coefficient columns, of which it
\* holds whenever it holds of the whole matrix.
C7_ResultIsREF ==
    (engine = "gaussian" /\ pc = "done") => Staircase(CoefficientPart(ResultMatrix))

\* C8: in the trace of either engine steps[0] is "Initial" with the input
\* matrix, and the matrix of every later step differs from the matrix of
\* the step before it.
C8_TraceComplete ==
    engine \in Engines =>
        /\ Len(steps) >= 1
        /\ steps[1].operation = "Initial"
        /\ StepMatrix(1) = InputFractions
        /\ \A k \in 2..Len(steps) : StepMatrix(k) # StepMatrix(k - 1)

\* C8 happens: a returned trace with a row swap followed by an elimination.
C8_Witness ==
    /\ engine = "gaussian"
    /\ pc = "done"
    /\ Len(steps) >= 3
    /\ steps[2].operation = "R1 <-> R2"

\* C9: gaussJordanWithFractions applied to a matrix already in reduced
\* row-echelon form returns an equal matrix and a trace whose only step is
\* the "Initial" step.
C9_RREFIdempotent ==
    (engine = "gaussJordan" /\ pc = "done" /\ IsRREF(InputFractions)) =>
        /\ ResultMatrix = InputFractions
        /\ Len(steps) = 1
        /\ steps[1].operation = "Initial"

\* C9 happens: a reduced matrix with a free column and a zero row is returned.
C9_Witness ==
    /\ engine = "gaussJordan"
    /\ pc = "done"
    /\ input0 = NumberMatrix(<< <<1, 1, 0, 1>>, <<0, 0, 1, 1>>, <<0, 0, 0, 0>> >>)
    /\ IsRREF(InputFractions)
    /\ Len(steps) = 1

\* C10: after either engine returns, the caller's matrix has the same rows
\* in the same order with the same entry values as before the call.
C10_InputUnchanged ==
    (engine \in Engines /\ pc = "done") =>
        /\ arrays[augmentedMatrix] = [i \in 1..Len(input0) |-> i]
        /\ numberMatrixToFractions(MatrixOf(arrays, rowsHeap, augmentedMatrix))
              = InputFractions

\* C10 happens: the engine swapped and combined rows of its working matrix.
C10_Witness ==
    /\ engine = "gaussJordan"
    /\ pc = "done"
    /\ Len(steps) >= 4
    /\ steps[2].operation = "R1 <-> R2"
    /\ ResultMatrix # InputFractions
    /\ MatrixOf(arrays, rowsHeap, augmentedMatrix) = input0

\* C11: for every non-empty rectangular matrix of any shape, more rows than
\* columns included, the two engines, the two solution extractors and the
\* classifier return a result without raising an error: no call ends in a
\* thrown error.
C11_NoError == pc # "threw"

\* the rows of M having a nonzero entry among the columns cs
RowsWithNonzero(M, cs) == {i \in 1..Len(M) : \E j \in cs : M[i][j].numerator # 0}

\* the decision the classifier is to take, from the zero pattern of M
ExpectedClassification(M) ==
    LET columnCount == Len(M[1])
        rankA == Cardinality(RowsWithNonzero(M, 1..(columnCount - 1)))
        rankAugmented == Cardinality(RowsWithNonzero(M, 1..columnCount))
    IN IF rankA < rankAugmented THEN "none"
       ELSE IF rankA < columnCount - 1 THEN "infinite"
       ELSE "unique"

\* the matrix the classifier was applied to
ClassifiedMatrix == IF engine = "classify" THEN InputFractions ELSE ResultMatrix

\* C12: classifyAugmentedSystemFractions returns "none" if fewer rows have a
\* nonzero entry outside the last column (rankA) than have any nonzero entry
\* (rankAugmented), otherwise "infinite" if rankA < columnCount - 1,
\* otherwise "unique"; the matrix it was given is left unchanged.
C12_ClassifierDecision ==
    pc = "classified" =>
        /\ classification = ExpectedClassification(ClassifiedMatrix)
        /\ MatrixOf(arrays, rowsHeap, augmentedMatrix) = input0
        /\ engine \in Engines => ResultMatrix = StepMatrix(Len(steps))

\* C12 happens: a matrix for which both "none" and "infinite" tests succeed
\* (no coefficient at all, one nonzero right-hand side) is classified "none".
C12_Witness ==
    /\ engine = "classify"
    /\ pc = "classified"
    /\ input0 = NumberMatrix(<< <<0, 0, 1>>, <<0, 0, 0>> >>)
    /\ classification = "none"

\* the matrices of the trace and the result the caller kept of the first call
FirstStepMatrix(k) == MatrixOf(arrays, rowsHeap, first.steps[k].matrix)
FirstResultMatrix == MatrixOf(arrays, rowsHeap, first.result)

\* C13: when an engine has been run twice on the same input, the two traces
\* have the same length, their steps agree pairwise in operation label,
\* description and matrix snapshot, and the two final matrices are equal.
C13_SecondRunEqual ==
    (pc = "done" /\ first # NoRun) =>
        /\ Len(steps) = Len(first.steps)
        /\ \A k \in 1..Len(first.steps) :
              k <= Len(steps) =>
                 /\ steps[k].operation = first.steps[k].operation
                 /\ steps[k].description = first.steps[k].description
                 /\ StepMatrix(k) = FirstStepMatrix(k)
        /\ ResultMatrix = FirstResultMatrix

\* C13 happens: a second run that swapped, scaled or combined rows returned.
C13_Witness ==
    /\ pc = "done"
    /\ first.engine = "gaussJordan"
    /\ engine = "gaussJordan"
    /\ Len(first.steps) >= 4
    /\ Len(steps) >= 4
    /\ result # first.result
    /\ ResultMatrix # InputFractions

\* gaussJordanWithFractions is about to run an iteration whose selected pivot
\* is zero: every candidate row has a zero entry in column col
ZeroPivotIteration ==
    /\ engine = "gaussJordan"
    /\ pc = "loop"
    /\ col < LoopBound
    /\ currentRow < RowCount(MatrixOf(arrays, rowsHeap, m))
    /\ ~HasPivot(MatrixOf(arrays, rowsHeap, m), currentRow, col)

\* C14: in gaussJordanWithFractions the row cursor moves independently of
\* the column index: an iteration whose selected pivot is near-zero advances
\* currentRow, does not consume the column (the column index stays) and
\* appends no trace step.
C14_ZeroPivotKeepsColumn ==
    [][(ZeroPivotIteration /\ pc' = "loop")
          => (currentRow' = currentRow + 1 /\ col' = col /\ steps' = steps)]_vars

(***************************************************************************)
(* Vocabulary of the properties of one iteration of a column loop: the     *)
(* working matrix before it, and the steps it appended.                    *)
(***************************************************************************)
WorkingMatrix == MatrixOf(arrays, rowsHeap, m)

\* an engine is about to run the iteration of column col, and runs it
ColumnIteration(name) ==
    /\ engine = name
    /\ pc = "loop"
    /\ col' = col + 1

\* the row cursor of the iteration (0-based): col, or currentRow
Cursor == IF engine = "gaussian" THEN col ELSE currentRow

\* the positions in the trace of the steps the iteration appended
NewSteps == (Len(steps) + 1)..Len(steps')
NewStepMatrix(k) == MatrixOf(arrays', rowsHeap', steps'[k].matrix)

\* |p| >= |q| for pairs with positive denominators
QAbsGeq(p, q) == Abs(p[1]) * q[2] >= Abs(q[1]) * p[2]

\* the row (1-based) of largest magnitude in column c (0-based) among the
\* rows after the first cur rows, the first of them when several share it
LargestRow(M, cur, c) ==
    CHOOSE p \in (cur + 1)..Len(M) :
        /\ \A r \in (cur + 1)..Len(M) : QAbsGeq(Q(M[p][c + 1]), Q(M[r][c + 1]))
        /\ \A r \in (cur + 1)..(p - 1) : ~QAbsGeq(Q(M[r][c + 1]), Q(M[p][c + 1]))

SwapLabel(i, j) == "R" \o ToString(i) \o " <-> R" \o ToString(j)
SwapLabels(M) == {SwapLabel(i, j) : i, j \in 1..Len(M)}

\* M with rows i and j exchanged
Exchanged(M, i, j) ==
    [r \in 1..Len(M) |-> IF r = i THEN M[j] ELSE IF r = j THEN M[i] ELSE M[r]]

\* C15: in both engines the pivot row chosen for column c is the row of
\* largest absolute value in column c among the candidate rows (rows >= c in
\* gaussianEliminationWithFractions, rows >= currentRow in
\* gaussJordanWithFractions), the smallest index among ties; a swap step
\* (cursor row exchanged with the chosen row) is appended exactly when the
\* chosen row differs from the cursor row.
C15_PivotChoice ==
    [][(ColumnIteration("gaussian") \/ ColumnIteration("gaussJordan")) =>
          LET M == WorkingMatrix
              p == LargestRow(M, Cursor, col)
              swaps == {k \in NewSteps : steps'[k].operation \in SwapLabels(M)}
          IN IF p # Cursor + 1
             THEN /\ swaps = {Len(steps) + 1}
                  /\ steps'[Len(steps) + 1].operation = SwapLabel(Cursor + 1, p)
                  /\ NewStepMatrix(Len(steps) + 1) = Exchanged(M, Cursor + 1, p)
             ELSE swaps = {}]_vars

\* C15 happens: rows 2 and 3 share the largest magnitude of column 1 and the
\* engine exchanged row 1 with row 2.
C15_Witness ==
    /\ engine = "gaussian"
    /\ input0 = NumberMatrix(<< <<0, 1>>, <<1, 1>>, <<-1, 1>> >>)
    /\ Len(steps) >= 2
    /\ steps[2].operation = "R1 <-> R2"
    /\ StepMatrix(2) = Exchanged(InputFractions, 1, 2)

QSub(p, q) == QAdd(p, QNeg(q))
\* p / q for q # 0, with a positive denominator
QDiv(p, q) == IF q[1] > 0 THEN <<p[1] * q[2], p[2] * q[1]>>
              ELSE <<-(p[1] * q[2]), -(p[2] * q[1])>>

\* the greatest common divisor of a >= 0 and b > 0, from its definition
GreatestDivisor(a, b) ==
    CHOOSE g \in 1..b :
        /\ a % g = 0 /\ b % g = 0
        /\ \A h \in (g + 1)..b : ~(a % h = 0 /\ b % h = 0)

\* the canonical string of a pair with positive denominator: lowest terms,
\* "n" when the reduced denominator is 1 and "n/d" otherwise
QString(p) ==
    LET g == GreatestDivisor(Abs(p[1]), p[2])
        n == p[1] \div g
        d == p[2] \div g
    IN IF Abs(p[1]) % p[2] = 0 THEN ToString(p[1] \div p[2])
       ELSE ToString(n) \o "/" \o ToString(d)

\* the rows r and s hold equal values
RowEq(r, s) == \A j \in 1..Len(r) : QEq(Q(r[j]), Q(s[j]))
\* row is target - factor * source, entry by entry
IsCombination(row, target, factor, source) ==
    \A j \in 1..Len(row) :
        QEq(Q(row[j]), QSub(Q(target[j]), QMul(factor, Q(source[j]))))

\* C16: in an iteration of gaussianEliminationWithFractions whose pivot (the
\* entry of largest magnitude, moved to row c) is nonzero, each row r > c
\* with a nonzero entry in column c becomes row_r - factor * row_c with
\* factor = entry[r][c] / pivot exactly, one step is appended for each such
\* row, in row order, labelled with the canonical string of its factor, and
\* the rows whose entry in column c is zero are unchanged with no step.
C16_EliminateBelow ==
    [][ColumnIteration("gaussian") =>
          LET M0 == WorkingMatrix
              c == col + 1
              p == LargestRow(M0, col, col)
              M1 == Exchanged(M0, c, p)
              first1 == Len(steps) + (IF p # c THEN 1 ELSE 0)
              pivot == Q(M1[c][c])
              E == {r \in (c + 1)..Len(M0) : M1[r][c].numerator # 0}
              position(r) == first1 + Cardinality({x \in E : x <= r})
              factor(r) == QDiv(Q(M1[r][c]), pivot)
              label(r) == "R" \o ToString(r) \o " - " \o QString(factor(r))
                             \o "R" \o ToString(c)
          IN pivot[1] # 0 =>
               /\ Len(steps') = first1 + Cardinality(E)
               /\ \A r \in 1..Len(M0) :
                     IF r \in E
                     THEN /\ IsCombination(WorkingMatrix'[r], M1[r], factor(r), M1[c])
                          /\ steps'[position(r)].operation = label(r)
                          /\ steps'[position(r)].description
                                = "Eliminate below pivot: R" \o ToString(r) \o " = " \o label(r)
                          /\ RowEq(NewStepMatrix(position(r))[r], WorkingMatrix'[r])
                          /\ \A x \in (r + 1)..Len(M0) :
                                NewStepMatrix(position(r))[x] = M1[x]
                     ELSE WorkingMatrix'[r] = M1[r]]_vars

\* C16 happens: rows 2 and 3 were combined with the pivot row with factors
\* 1 and -1, each with its own step.
C16_Witness ==
    /\ engine = "gaussian"
    /\ input0 = NumberMatrix(<< <<1, 1>>, <<1, 0>>, <<-1, 1>> >>)
    /\ Len(steps) >= 3
    /\ steps[2].operation = "R2 - 1R1"
    /\ steps[3].operation = "R3 - -1R1"
    /\ StepMatrix(3)[3] = <<NewFraction(0, 1), NewFraction(2, 1)>>

\* row is factor * source, entry by entry
IsScaled(row, factor, source) ==
    \A j \in 1..Len(row) : QEq(Q(row[j]), QMul(factor, Q(source[j])))

One == [numerator |-> 1, denominator |-> 1]

\* C17: in an iteration of gaussJordanWithFractions whose pivot (the entry
\* of largest magnitude, moved to row currentRow) is nonzero, the pivot
\* entry is exactly 1/1 afterwards, and a scale step (the pivot row
\* multiplied by 1/pivot, labelled with that factor) is appended if and only
\* if the pivot was not already exactly 1.
C17_PivotScaledToOne ==
    [][ColumnIteration("gaussJordan") =>
          LET M0 == WorkingMatrix
              cur == currentRow + 1
              c == col + 1
              p == LargestRow(M0, currentRow, col)
              M1 == Exchanged(M0, cur, p)
              first1 == Len(steps) + (IF p # cur THEN 1 ELSE 0)
              pivot == Q(M1[cur][c])
              scaleFactor == QDiv(<<1, 1>>, pivot)
              scaleLabel == QString(scaleFactor) \o "R" \o ToString(cur)
              scales == {k \in NewSteps : steps'[k].operation = scaleLabel}
          IN pivot[1] # 0 =>
               /\ WorkingMatrix'[cur][c] = One
               /\ IF ~QEq(pivot, <<1, 1>>)
                  THEN /\ scales = {first1 + 1}
                       /\ steps'[first1 + 1].description
                             = "Scale row " \o ToString(cur) \o " by "
                                  \o QString(scaleFactor) \o " to make pivot = 1"
                       /\ IsScaled(NewStepMatrix(first1 + 1)[cur], scaleFactor, M1[cur])
                       /\ NewStepMatrix(first1 + 1)[cur][c] = One
                       /\ \A r \in 1..Len(M0) :
                             r # cur => NewStepMatrix(first1 + 1)[r] = M1[r]
                  ELSE /\ scales = {}
                       /\ \A k \in (first1 + 1)..Len(steps') :
                             NewStepMatrix(k)[cur] = M1[cur]]_vars

\* C17 happens: the pivot 3 of the worked example was scaled to 1 by 1/3.
C17_Witness ==
    /\ engine = "gaussJordan"
    /\ input0 = ExampleEndToEnd
    /\ Len(steps) >= 3
    /\ steps[2].operation = "R1 <-> R2"
    /\ steps[3].operation = "1/3R1"
    /\ StepMatrix(2)[1][1] = NewFraction(3, 1)
    /\ StepMatrix(3)[1][1] = One

\* every row of M other than row has exactly zero in column c (1-based)
ColumnCleared(M, row, c) ==
    \A r \in 1..Len(M) : r # row => M[r][c].numerator = 0

\* the rows in which the snapshot of step k differs from that of step k - 1
ChangedRows(k) ==
    {r \in 1..Len(StepMatrix(k)) : StepMatrix(k)[r] # StepMatrix(k - 1)[r]}

\* C18: in gaussJordanWithFractions, once column c has been processed with
\* a nonzero pivot in row p, every row other than p has exactly zero in
\* column c in the working matrix, in every snapshot from the end of that
\* iteration on and in the returned matrix; and that iteration appended
\* exactly one step for each other row that had a nonzero entry in column c
\* (a step changing that row alone), and none for the rows that had zero.
C18_ColumnStaysCleared ==
    (engine = "gaussJordan" /\ pc \in {"loop", "done"}) =>
        \A i \in 1..Len(pivots) :
            LET row == pivots[i].row + 1
                c == pivots[i].col + 1
                iteration == (pivots[i].before + 1)..pivots[i].at
                \* the last snapshot before the eliminations of the iteration:
                \* the one after its swap and scaling, if any
                base == CHOOSE b \in pivots[i].before..pivots[i].at :
                           /\ b = pivots[i].before \/ row \in ChangedRows(b)
                           /\ \A k \in (b + 1)..pivots[i].at : row \notin ChangedRows(k)
            IN /\ ColumnCleared(WorkingMatrix, row, c)
               /\ pc = "done" => ColumnCleared(ResultMatrix, row, c)
               /\ \A k \in pivots[i].at..Len(steps) : ColumnCleared(StepMatrix(k), row, c)
               /\ \A r \in 1..Len(WorkingMatrix) :
                     r # row =>
                        Cardinality({k \in iteration : ChangedRows(k) = {r}})
                           = IF StepMatrix(base)[r][c].numerator # 0 THEN 1 ELSE 0

\* C18 happens: the second column of the worked example was cleared above
\* and below its pivot, and later steps were applied.
C18_Witness ==
    /\ engine = "gaussJordan"
    /\ pc = "done"
    /\ input0 = ExampleEndToEnd
    /\ Len(pivots) = 3
    /\ pivots[2].row = 1
    /\ pivots[2].at < Len(steps)
    /\ StepMatrix(pivots[2].before)[1][2].numerator # 0
    /\ StepMatrix(pivots[2].before)[3][2].numerator # 0
    /\ ColumnCleared(ResultMatrix, 2, 2)

\* sum over the columns k in (i+1)..j of M[i][k] * x[k], as a pair
RECURSIVE SumAbove(_, _, _, _)
SumAbove(M, x, i, j) ==
    IF j <= i THEN <<0, 1>>
    ELSE QAdd(SumAbove(M, x, i, j - 1), QMul(Q(M[i][j]), x[j]))

\* back substitution as stated: rows from the last to the first; within the
\* coefficient columns and with a nonzero diagonal entry
\*   x[i] = (rhs[i] - sum over coefficient columns j > i of M[i][j] * x[j]) / M[i][i]
\* and x[i] = 0 otherwise (x has one entry per row)
RECURSIVE BackSubstituted(_, _, _)
BackSubstituted(M, x, i) ==
    IF i = 0 THEN x
    ELSE LET coefficientColumns == Len(M[1]) - 1
             rhs == Q(M[i][Len(M[i])])
             sum == SumAbove(M, x, i, Min(coefficientColumns, Len(M)))
         IN IF i <= coefficientColumns /\ M[i][i].numerator # 0
            THEN BackSubstituted(M, [x EXCEPT ![i] = QDiv(QSub(rhs, sum), Q(M[i][i]))],
                                 i - 1)
            ELSE BackSubstituted(M, x, i - 1)

ExpectedSolution(M) == BackSubstituted(M, [i \in 1..Len(M) |-> <<0, 1>>], Len(M))

\* C19: extractSolutionFromREFFractions returns, for every matrix it is
\* given, the vector of back substitution: solution[i] = (rhs[i] - sum over
\* coefficient columns j > i of entry[i][j] * solution[j]) / entry[i][i] when
\* i is within the coefficient columns and entry[i][i] is nonzero, 0
\* otherwise; and the matrix it was given is not modified.
C19_BackSubstitution ==
    (engine = "gaussian" /\ pc \in {"extracted", "threw"}) =>
        /\ pc = "extracted"
        /\ Len(solution) = Len(ResultMatrix)
        /\ \A i \in 1..Len(solution) :
              QEq(Q(solution[i]), ExpectedSolution(ResultMatrix)[i])
        /\ ResultMatrix = StepMatrix(Len(steps))

\* C20: the trace of either engine is append-only and its snapshots are
\* independent copies: in every step of a run the trace does not get
\* shorter, and every step already appended keeps its place, its label, its
\* description and the value of its matrix, whatever swap, scaling or
\* elimination is applied to the working matrix.
C20_TraceAppendOnly ==
    [][/\ Len(steps') >= Len(steps)
       /\ \A k \in 1..Len(steps) :
             /\ steps'[k] = steps[k]
             /\ MatrixOf(arrays', rowsHeap', steps'[k].matrix) = StepMatrix(k)]_vars

\* C20 happens: after a swap, a scaling and eliminations the first snapshot
\* still holds the input and the second the swapped rows.
C20_Witness ==
    /\ engine = "gaussJordan"
    /\ pc = "done"
    /\ input0 = ExampleEndToEnd
    /\ Len(steps) >= 5
    /\ StepMatrix(1) = InputFractions
    /\ StepMatrix(2) = Exchanged(InputFractions, 1, 2)
    /\ ResultMatrix # StepMatrix(2)
    /\ ResultMatrix[1] # StepMatrix(2)[1]

\* what a solver called by handleSolve on the page's state produces
SolverOutcome == RunSolver(home.method, home.matrix, home.bVector)

\* C21: whenever the solver raises during handleSolve, the state handleSolve
\* leaves has error set to the message, result = null and steps = []; and
\* whenever it succeeds, also after an earlier error, the state has
\* error = null and result and steps set to what the solver returned.
C21_SolveErrorThenRetry ==
    [][last'.solve =>
         LET r == SolverOutcome
         IN IF r.ok
            THEN /\ IsNull(home'.error)
                 /\ ~IsNull(home'.result)
                 /\ home'.result.value = r.value.result
                 /\ home'.steps = r.value.steps
            ELSE /\ ~IsNull(home'.error)
                 /\ home'.error.message = r.error
                 /\ IsNull(home'.result)
                 /\ home'.steps = <<>>]_vars

\* a solve that succeeded while the error of an earlier solve was shown
C21_Witness ==
    /\ last.solve
    /\ ~IsNull(last.error)
    /\ IsNull(home.error)
    /\ ~IsNull(home.result)
    /\ Len(home.steps) > 0

\* the square integer matrix A has determinant zero
Singular(A) ==
    DetQ([i \in 1..Len(A) |-> [j \in 1..Len(A) |-> <<A[i][j], 1>>]])[1] = 0

\* C22: for every singular square matrix A, gaussianElimination,
\* inverseMatrix, cramersRule and the LU-based solve (luFactorization
\* followed by the forward and back substitution of
\* luFactorizationWithSteps) raise an error instead of returning a solution.
C22_SingularRaises ==
    (numeric.solver # "none" /\ Singular(numeric.A)) => ~numeric.outcome.ok

\* the elements of a set of integers in increasing order
Sorted(S) ==
    [i \in 1..Cardinality(S) |->
        CHOOSE x \in S : Cardinality({y \in S : y < x}) = i - 1]

\* the rank of the matrix M restricted to the columns cs: the size of its
\* largest square submatrix with nonzero determinant
Rank(M, cs) ==
    LET sizes == {k \in 0..Min(Len(M), Cardinality(cs)) :
                    k = 0 \/ \E R \in SUBSET (1..Len(M)), C \in SUBSET cs :
                                /\ Cardinality(R) = k
                                /\ Cardinality(C) = k
                                /\ DetQ([i \in 1..k |->
                                           [j \in 1..k |->
                                               Q(M[Sorted(R)[i]][Sorted(C)[j]])]])[1] # 0}
    IN CHOOSE k \in sizes : \A l \in sizes : l <= k

\* how many solutions the augmented system M has (Rouche-Capelli): none if
\* the right-hand side raises the rank, one if the rank is the number of
\* unknowns, more than one otherwise
Solvability(M) ==
    LET unknowns == Len(M[1]) - 1
        rankA == Rank(M, 1..unknowns)
        rankAugmented == Rank(M, 1..(unknowns + 1))
    IN IF rankA < rankAugmented THEN "none"
       ELSE IF rankA = unknowns THEN "unique"
       ELSE "infinite"

\* C23: classifyAugmentedSystemFractions applied to the matrix returned by
\* gaussJordanWithFractions([A|b]) returns "none" exactly when the system has
\* no solution, "unique" exactly when it has exactly one, and "infinite"
\* exactly when it has more than one.
C23_ClassifiesSolvability ==
    (pc = "classified" /\ engine = "gaussJordan") =>
        classification = Solvability(input0)

\* a matrix of Fractions as a matrix of numbers
Rationals(M) ==
    [i \in 1..Len(M) |-> [j \in 1..Len(M[i]) |-> Ratio(Q(M[i][j])[1], Q(M[i][j])[2])]]

\* the reduced row-echelon form of the matrix M of numbers, by the textbook
\* algorithm: r is the next pivot row, c the column looked at (1-based); a
\* column without a pivot leaves r where it is
RECURSIVE Reduced(_, _, _)
Reduced(M, r, c) ==
    IF r > Len(M) \/ c > Len(M[1]) THEN M
    ELSE LET candidates == {i \in r..Len(M) : M[i][c][1] # 0}
         IN IF candidates = {} THEN Reduced(M, r, c + 1)
            ELSE LET p == CHOOSE i \in candidates : \A k \in candidates : i <= k
                     pivotRow == [j \in 1..Len(M[p]) |-> NumDiv(M[p][j], M[p][c])]
                     other(i) == IF i = r THEN M[p] ELSE IF i = p THEN M[r] ELSE M[i]
                 IN Reduced([i \in 1..Len(M) |->
                               IF i = r THEN pivotRow
                               ELSE [j \in 1..Len(pivotRow) |->
                                       NumSub(other(i)[j],
                                              NumMul(other(i)[c], pivotRow[j]))]],
                            r + 1, c + 1)

\* a row 0 = nonzero: the system has no solution
Inconsistent(M) ==
    \E i \in 1..Len(M) :
        /\ M[i][Len(M[i])][1] # 0
        /\ \A j \in 1..(Len(M[i]) - 1) : M[i][j][1] = 0

\* the augmented systems M and N of the same shape have the same solution
\* set: both have none, or they have the same reduced row-echelon form
SameSolutionSet(M, N) ==
    LET a == Reduced(Rationals(M), 1, 1)
        b == Reduced(Rationals(N), 1, 1)
    IN (Inconsistent(a) /\ Inconsistent(b)) \/ a = b

\* C24: every matrix of the trace of either engine, and the returned matrix,
\* has exactly the same solution set as the input augmented system: every
\* step an engine appends, and the matrix it returns, does.
C24_SolutionSetPreserved ==
    [][/\ \A k \in NewSteps : SameSolutionSet(InputFractions, NewStepMatrix(k))
       /\ result' # result =>
             SameSolutionSet(InputFractions, MatrixOf(arrays', rowsHeap', result'))]_vars

\* a run on a system with exactly one solution that changed the matrix
C24_Witness ==
    /\ pc = "done"
    /\ NonsingularSystem
    /\ Len(steps) >= 3
    /\ ResultMatrix # InputFractions

\* C25: in gaussJordanWithFractions, at the start of every loop iteration
\* (and when the loop ends) currentRow equals the column index col, whether
\* the pivots before were zero or not; every pivot was found in row = col of a
\* column below min(rows, cols - 1), and no column from that bound on is
\* processed.
C25_RowCursorIsColumn ==
    (engine = "gaussJordan" /\ pc \in {"loop", "done"}) =>
        /\ currentRow = col
        /\ col <= LoopBound
        /\ \A k \in 1..Len(pivots) :
              pivots[k].row = pivots[k].col /\ pivots[k].col < LoopBound

\* an iteration is about to start after a column with a zero pivot and a
\* column with a pivot
C25_Witness ==
    /\ engine = "gaussJordan"
    /\ pc = "loop"
    /\ col < LoopBound
    /\ Len(pivots) >= 1
    /\ Len(pivots) < col

\* the two exact solving paths of lib/solverWithSteps.ts on the matrix M
SolutionByREF(M) ==
    extractSolutionFromREFFractions(gaussianEliminationWithFractions(M).result).solution
SolutionByRREF(M) ==
    extractSolutionFromRREFFractions(gaussJordanWithFractions(M).result)

\* C26: for every n x (n+1) augmented system with nonsingular coefficient
\* matrix the two exact solving paths agree entry by entry under
\* Fraction.equals: the solution a run of one path extracted equals the
\* solution of the other path on the same input.
C26_PathsAgree ==
    (pc = "extracted" /\ NonsingularSystem) =>
        LET other == IF engine = "gaussian" THEN SolutionByRREF(input0)
                     ELSE SolutionByREF(input0)
        IN /\ Len(solution) = Len(other)
           /\ \A i \in 1..Len(solution) : Equals(solution[i], other[i])

\* a nonsingular system whose solution has an entry that is not an integer
C26_Witness ==
    /\ pc = "extracted"
    /\ engine = "gaussian"
    /\ NonsingularSystem
    /\ Len(input0) >= 2
    /\ \E i \in 1..Len(solution) : solution[i].denominator > 1

\* C27: the matrix returned by gaussianEliminationWithFractions is
\* upper-trapezoidal for every input: every entry at (r, c) with r > c and
\* c < min(rows, cols - 1) is exactly zero, whether column c had a usable
\* pivot or was skipped.
C27_UpperTrapezoidal ==
    (engine = "gaussian" /\ pc = "done") =>
        \A c \in 1..LoopBound : \A r \in (c + 1)..Len(ResultMatrix) :
            ResultMatrix[r][c].numerator = 0

\* a returned matrix with a skipped column (zero on the diagonal), a column
\* with a pivot, and rows that were combined
C27_Witness ==
    /\ engine = "gaussian"
    /\ pc = "done"
    /\ Len(ResultMatrix) >= 3
    /\ \E c \in 1..LoopBound : ResultMatrix[c][c].numerator = 0
    /\ \E c \in 1..LoopBound : ResultMatrix[c][c].numerator # 0
    /\ ResultMatrix # InputFractions

\* C28: in both engines the matrix of the last trace step equals the
\* returned matrix entry by entry; the trace of a run that appended no step
\* for a row operation consists of the "Initial" step only and the returned
\* matrix equals the input, and a run that returns the input unchanged has
\* appended no other step.
C28_LastStepIsResult ==
    (engine \in Engines /\ pc = "done") =>
        /\ ResultMatrix = StepMatrix(Len(steps))
        /\ Len(steps) = 1 =>
              (steps[1].operation = "Initial" /\ ResultMatrix = InputFractions)
        /\ ResultMatrix = InputFractions => Len(steps) = 1

\* a run whose last operation scaled a pivot row or combined two rows
C28_Witness ==
    /\ engine = "gaussJordan"
    /\ pc = "done"
    /\ Len(steps) >= 4
    /\ ResultMatrix # StepMatrix(Len(steps) - 1)
    /\ ResultMatrix # InputFractions

\* C29: in every reachable state of the calculator page error and result
\* are never both set (error # null implies result = null), and
\* showSteps = true implies that steps is not empty.
C29_PageConsistent ==
    /\ ~IsNull(home.error) => IsNull(home.result)
    /\ home.showSteps => Len(home.steps) > 0

\* the steps of an earlier solve are shown after the size was changed and
\* the matrix reset
C29_Witness ==
    /\ home.showSteps
    /\ Len(home.steps) > 0
    /\ ~IsNull(home.result)
    /\ ~last.solve
    /\ home.size # Len(home.steps[1].data)
    /\ home.matrix = createMatrix(home.size)

\* C30: in gaussianEliminationWithFractions every elimination factor
\* entry[r][c] / pivot has absolute value at most 1: every step of an
\* iteration that is not the swap changes one row r below the pivot row into
\* row_r - factor * row_c, where the pivot entry[c][c] is nonzero and at
\* least as large in magnitude as entry[r][c].
C30_FactorAtMostOne ==
    [][ColumnIteration("gaussian") =>
          \A k \in NewSteps :
              steps'[k].operation \notin SwapLabels(WorkingMatrix) =>
                  LET before == NewStepMatrix(k - 1)
                      after == NewStepMatrix(k)
                      c == col + 1
                  IN \A r \in 1..Len(after) :
                        after[r] # before[r] =>
                            /\ r > c
                            /\ before[c][c].numerator # 0
                            /\ QAbsGeq(Q(before[c][c]), Q(before[r][c]))
                            /\ IsCombination(after[r], before[r],
                                             QDiv(Q(before[r][c]), Q(before[c][c])),
                                             before[c])]_vars

\* the row with entry 2 is eliminated with the row with entry 3, which the
\* swap made the pivot row: the factor is 2/3
C30_Witness ==
    /\ engine = "gaussian"
    /\ input0 = ExampleEndToEnd
    /\ Len(steps) >= 3
    /\ steps[2].operation = "R1 <-> R2"
    /\ StepMatrix(2)[2][1] = NewFraction(2, 1)
    /\ StepMatrix(2)[1][1] = NewFraction(3, 1)
    /\ StepMatrix(3)[2][1].numerator = 0

====
